---- MODULE Spec2Model ----
(***************************************************************************)
(* Model of the ashare-ai-tracker pipeline: RuleEngine (rule_engine.py),   *)
(* StateManager (state_manager.py) and NotificationService                 *)
(* (notification_service.py), with the records of models.py, driven by the *)
(* script of main.py and by app.py (the button, the auto-run loop and the  *)
(* choice of the data source) with the providers of data_provider.py.      *)
(*                                                                         *)
(* time.time() is the variable now (whole seconds).  A call of a handler   *)
(* is one atomic step at one clock value; the clock moves between calls.   *)
(* Scores are whole numbers, held as integers, because every weight is an  *)
(* integer; a score is the float 50.0 at first and an int once the clamp   *)
(* of update_state has returned 0 or 100 (score_type).                     *)
(***************************************************************************)
EXTENDS Integers, Sequences, FiniteSets, TLC

VARIABLES
    now,                 \* time.time()
    ticks,               \* number of clock advances so far
    op,                  \* the handler that ran last ("init", "tick", ...)
    calls,               \* number of handler calls made so far
    events,              \* the event list of the last call (argument or result)
    current_state,       \* StateManager.current_state
    recent_events,       \* StateManager.recent_events
    prev_state,          \* current_state as it was before the last update_state
    state_objects,       \* the fields, as they are now, of the MarketState
                         \* instances followed: number -> fields
    returned_states,     \* history: call number -> the instance update_state
                         \* returned and the fields it had on return
    sent_notifications,  \* NotificationService.sent_notifications
    last_sent_time,      \* NotificationService.last_sent_time (a dict)
    market_state,        \* the MarketState argument of the last generate_notifications
    unique_events,       \* the local unique_events of the last generate_notifications
    notifications,       \* the list the last generate_notifications returned
    emitted,             \* history: every notification returned so far, in order
    admitted,            \* history: every admission, [event, time]
    presented,           \* history: subtypes presented before the last call
    log_before,          \* sent_notifications as it was before the last call
    rules,               \* RuleEngine.rules
    current_data,        \* the snapshot given to evaluate_all
    history_window,      \* the caller's history list (the argument of evaluate_all
                         \* where evaluate_all is called on its own)
    passed_history,      \* the history_window argument of the last evaluate_all
    data_provider,       \* st.session_state.data_provider of app.py: its class
                         \* and, of a MockDataProvider, its trend in tenths
    departures           \* number of steps of app.py so far that were not the
                         \* auto-run loop's with the provider's usual answer

smVars == <<current_state, recent_events, prev_state, state_objects, returned_states>>
nsVars == <<sent_notifications, last_sent_time, market_state, unique_events,
            notifications, emitted, admitted, presented, log_before>>
reVars == <<rules, current_data, history_window, passed_history>>
appVars == <<data_provider, departures>>
vars == <<now, ticks, op, calls, events, smVars, nsVars, reVars, appVars>>

----------------------------------------------------------------------------
(* Bounds of the model *)

MaxEvents == 2      \* longest event list passed to one call
MaxUpdates == 3     \* update_state calls in one behaviour
MaxNotifies == 2    \* generate_notifications calls in one behaviour
MaxTicks == 2       \* clock advances between update_state calls
MaxWaits == 1       \* clock advances between generate_notifications calls
MaxRecent == 2      \* most events held in recent_events
MaxRules == 2       \* rules registered in an order other than main.py's
MaxEvaluations == 2 \* evaluate_all calls in one behaviour
MaxCycles == 3      \* process_step or update_system calls in one behaviour

(* app.py line 137: the most entries the history window keeps *)
HistoryCap == 100

(* Clock values at construction. *)
StartTimes == {1000, 5000}

----------------------------------------------------------------------------
(* models.py *)

EventSubtype == <<"sentiment_turning_up", "sentiment_turning_down",
                  "flow_reversal", "flow_withdrawal",
                  "theme_emergence", "theme_exhaustion">>

Subtypes == {EventSubtype[i] : i \in 1..Len(EventSubtype)}

EventLevel == {"low", "medium", "high"}

MarketStatus == {"red", "yellow", "green"}

NotificationFormat == {"flash", "card", "alert"}

(* The level each rule of rule_engine.py gives the event it creates. *)
LevelOf(subtype) ==
    CASE subtype = "sentiment_turning_up"   -> "medium"
      [] subtype = "sentiment_turning_down" -> "high"
      [] subtype = "flow_reversal"          -> "medium"
      [] subtype = "flow_withdrawal"        -> "high"
      [] subtype = "theme_emergence"        -> "medium"
      [] subtype = "theme_exhaustion"       -> "medium"

(* The description each rule of rule_engine.py gives the event it creates. *)
DescriptionOf(subtype, sector) ==
    CASE subtype = "sentiment_turning_up" ->
             "Market sentiment turning up: Volume spike with index rise."
      [] subtype = "sentiment_turning_down" ->
             "Market sentiment turning down: Limit downs increasing."
      [] subtype = "flow_reversal" ->
             "Capital flow reversal: Northbound funds turning positive."
      [] subtype = "flow_withdrawal" ->
             "Significant capital withdrawal detected."
      [] subtype = "theme_emergence" ->
             "New market theme emerging: " \o sector \o "."
      [] subtype = "theme_exhaustion" ->
             "Leading theme shows signs of exhaustion."

Event(event_id, timestamp, subtype, level, description) ==
    [event_id |-> event_id, timestamp |-> timestamp,
     type |-> "anomaly_detection", subtype |-> subtype, level |-> level,
     description |-> description]

(* sentiment_score is a Python number: its value is held as an integer    *)
(* (every score is a whole number) and score_type says whether the value  *)
(* is a float (50.0) or an int (100); score_type is no field of the       *)
(* dataclass.                                                             *)
MarketState(timestamp, status, sentiment_score, score_type, main_driver, summary) ==
    [timestamp |-> timestamp, status |-> status,
     sentiment_score |-> sentiment_score, score_type |-> score_type,
     main_driver |-> main_driver, summary |-> summary]

Notification(notification_id, timestamp, format, title, lines, related_events) ==
    [notification_id |-> notification_id, timestamp |-> timestamp,
     format |-> format, title |-> title, lines |-> lines,
     related_events |-> related_events]

----------------------------------------------------------------------------
(* Event lists handed to the State Manager and the Notification Service:   *)
(* events as the rules create them (level and description fixed by the     *)
(* subtype), stamped with the clock of the cycle, with fresh ids.          *)

EventSeqs(kinds, maxLen) ==
    UNION {[1..n -> kinds] : n \in 0..maxLen}

(* The subtypes of kinds in the order of EventSubtype, each once: the     *)
(* shape of a list evaluate_all returns with the rules of main.py.        *)
InOrder(kinds) ==
    LET idx == {i \in 1..Len(EventSubtype) : EventSubtype[i] \in kinds}
    IN  [k \in 1..Cardinality(idx) |->
            EventSubtype[CHOOSE i \in idx : Cardinality({j \in idx : j <= i}) = k]]

OrderedEventSeqs(kinds, maxLen) ==
    {InOrder(chosen) : chosen \in {c \in SUBSET kinds : Cardinality(c) <= maxLen}}

CycleEvents(kindSeq, cycle, t) ==
    [i \in 1..Len(kindSeq) |->
        Event(<<cycle, i>>, t, kindSeq[i], LevelOf(kindSeq[i]),
              DescriptionOf(kindSeq[i], "Semiconductor"))]

----------------------------------------------------------------------------
(* rule_engine.py *)

(* A snapshot is a dict: a function from the names of the fields present. *)
EmptyDict == [k \in {} |-> 0]

(* dict.get(key, default) *)
Get(d, key, default) == IF key \in DOMAIN d THEN d[key] ELSE default

(* a[-n:] *)
LastN(a, n) == IF Len(a) <= n THEN a ELSE SubSeq(a, Len(a) - n + 1, Len(a))

RECURSIVE SumSeq(_)
SumSeq(a) == IF a = <<>> THEN 0 ELSE Head(a) + SumSeq(Tail(a))

RuleEvent(id, t, subtype, sector) ==
    <<Event(id, t, subtype, LevelOf(subtype), DescriptionOf(subtype, sector))>>

SentimentTurningUpRuleWholeHistory(cur, hist, id, t) ==
    IF hist = <<>> THEN <<>>
    ELSE LET volumes == [i \in 1..Len(hist) |-> Get(hist[i], "volume", 0)]
             total == SumSeq(volumes)
             curr_vol == Get(cur, "volume", 0)
             index_change == Get(cur, "index_change_pct", 0)
         IN  IF /\ total > 0
                /\ 10 * Len(volumes) * curr_vol > 13 * total
                /\ index_change > 0
             THEN RuleEvent(id, t, "sentiment_turning_up", "")
             ELSE <<>>

SentimentTurningUpRuleHalfAbove(cur, hist, id, t) ==
    IF hist = <<>> THEN <<>>
    ELSE LET window == LastN(hist, 30)
             volumes == [i \in 1..Len(window) |-> Get(window[i], "volume", 0)]
             total == SumSeq(volumes)
             curr_vol == Get(cur, "volume", 0)
             index_change == Get(cur, "index_change_pct", 0)
         IN  IF /\ total > 0
                /\ 10 * Len(volumes) * curr_vol > 15 * total
                /\ index_change > 0
             THEN RuleEvent(id, t, "sentiment_turning_up", "")
             ELSE <<>>

SentimentTurningUpRuleEmptyMeanZero(cur, hist, id, t) ==
    LET window == LastN(hist, 30)
        volumes == [i \in 1..Len(window) |-> Get(window[i], "volume", 0)]
        total == SumSeq(volumes)
        curr_vol == Get(cur, "volume", 0)
        index_change == Get(cur, "index_change_pct", 0)
    IN  IF /\ (IF hist = <<>> THEN curr_vol > 0
               ELSE total > 0 /\ 10 * Len(volumes) * curr_vol > 13 * total)
           /\ index_change > 0
        THEN RuleEvent(id, t, "sentiment_turning_up", "")
        ELSE <<>>

(* lines 37-60.  avg_vol is sum / len; with volumes that are whole        *)
(* numbers, avg_vol > 0 is sum > 0 and curr_vol > avg_vol * 1.3 is        *)
(* 10 * len * curr_vol > 13 * sum.                                        *)
SentimentTurningUpRule(cur, hist, id, t) ==
    IF hist = <<>> THEN <<>>
    ELSE LET window == LastN(hist, 30)
             volumes == [i \in 1..Len(window) |-> Get(window[i], "volume", 0)]
             total == SumSeq(volumes)
             curr_vol == Get(cur, "volume", 0)
             index_change == Get(cur, "index_change_pct", 0)
         IN  IF /\ total > 0
                /\ 10 * Len(volumes) * curr_vol > 13 * total
                /\ index_change > 0
             THEN RuleEvent(id, t, "sentiment_turning_up", "")
             ELSE <<>>

SentimentTurningDownRuleFromThree(cur, hist, id, t) ==
    LET index_change == Get(cur, "index_change_pct", 0)
        limit_down == Get(cur, "limit_down_count", 0)
        bomb_rate == Get(cur, "bomb_rate", 0)
    IN  IF index_change < 0 /\ limit_down >= 3 /\ bomb_rate > 30
        THEN RuleEvent(id, t, "sentiment_turning_down", "")
        ELSE <<>>

SentimentTurningDownRuleAnyIndex(cur, hist, id, t) ==
    LET limit_down == Get(cur, "limit_down_count", 0)
        bomb_rate == Get(cur, "bomb_rate", 0)
    IN  IF limit_down > 3 /\ bomb_rate > 30
        THEN RuleEvent(id, t, "sentiment_turning_down", "")
        ELSE <<>>

(* lines 67-85 *)
SentimentTurningDownRule(cur, hist, id, t) ==
    LET index_change == Get(cur, "index_change_pct", 0)
        limit_down == Get(cur, "limit_down_count", 0)
        bomb_rate == Get(cur, "bomb_rate", 0)
    IN  IF index_change < 0 /\ limit_down > 3 /\ bomb_rate > 30
        THEN RuleEvent(id, t, "sentiment_turning_down", "")
        ELSE <<>>

FlowReversalRuleAnyEntry(cur, hist, id, t) ==
    IF hist = <<>> THEN <<>>
    ELSE LET curr_flow == Get(cur, "north_bound_flow", 0)
         IN  IF /\ curr_flow > 0
                /\ \E i \in 1..Len(hist) : Get(hist[i], "north_bound_flow", 0) < 0
             THEN RuleEvent(id, t, "flow_reversal", "")
             ELSE <<>>

FlowReversalRuleEitherWay(cur, hist, id, t) ==
    IF hist = <<>> THEN <<>>
    ELSE LET curr_flow == Get(cur, "north_bound_flow", 0)
             prev_flow == Get(hist[Len(hist)], "north_bound_flow", 0)
         IN  IF \/ curr_flow > 0 /\ prev_flow < 0
                \/ curr_flow < 0 /\ prev_flow > 0
             THEN RuleEvent(id, t, "flow_reversal", "")
             ELSE <<>>

(* lines 92-112 *)
FlowReversalRule(cur, hist, id, t) ==
    IF hist = <<>> THEN <<>>
    ELSE LET curr_flow == Get(cur, "north_bound_flow", 0)
             prev_flow == Get(hist[Len(hist)], "north_bound_flow", 0)
         IN  IF curr_flow > 0 /\ prev_flow < 0
             THEN RuleEvent(id, t, "flow_reversal", "")
             ELSE <<>>

FlowWithdrawalRuleFromThreshold(cur, hist, id, t) ==
    LET curr_flow == Get(cur, "north_bound_flow", 0)
    IN  IF curr_flow <= -10000000
        THEN RuleEvent(id, t, "flow_withdrawal", "")
        ELSE <<>>

(* lines 118-134 *)
FlowWithdrawalRule(cur, hist, id, t) ==
    LET curr_flow == Get(cur, "north_bound_flow", 0)
    IN  IF curr_flow < -10000000
        THEN RuleEvent(id, t, "flow_withdrawal", "")
        ELSE <<>>

ThemeEmergenceRuleLastEntry(cur, hist, id, t) ==
    LET curr_top_sector == Get(cur, "top_sector", "")
    IN  IF hist = <<>> THEN <<>>
        ELSE IF Len(hist) >= 15
             THEN LET past_top_sector == Get(hist[Len(hist)], "top_sector", "")
                  IN  IF curr_top_sector # past_top_sector /\ curr_top_sector # ""
                      THEN RuleEvent(id, t, "theme_emergence", curr_top_sector)
                      ELSE <<>>
        ELSE <<>>

(* lines 140-162 *)
ThemeEmergenceRule(cur, hist, id, t) ==
    LET curr_top_sector == Get(cur, "top_sector", "")
    IN  IF hist = <<>> THEN <<>>
        ELSE IF Len(hist) >= 15
             THEN LET past_top_sector == Get(hist[Len(hist) - 14], "top_sector", "")
                  IN  IF curr_top_sector # past_top_sector /\ curr_top_sector # ""
                      THEN RuleEvent(id, t, "theme_emergence", curr_top_sector)
                      ELSE <<>>
        ELSE <<>>

ThemeExhaustionRuleAbsentFalls(cur, hist, id, t) ==
    LET curr_top_sector_change == Get(cur, "top_sector_change_pct", -3)
    IN  IF curr_top_sector_change < -2
        THEN RuleEvent(id, t, "theme_exhaustion", "")
        ELSE <<>>

(* lines 168-183; top_sector_change_pct in whole percent *)
ThemeExhaustionRule(cur, hist, id, t) ==
    LET curr_top_sector_change == Get(cur, "top_sector_change_pct", 0)
    IN  IF curr_top_sector_change < -2
        THEN RuleEvent(id, t, "theme_exhaustion", "")
        ELSE <<>>

RuleClasses == {"SentimentTurningUpRule", "SentimentTurningDownRule",
                "FlowReversalRule", "FlowWithdrawalRule",
                "ThemeEmergenceRule", "ThemeExhaustionRule"}

(* rule.evaluate(current_data, history_window): <<>> is None *)
Evaluate(rule, cur, hist, id, t) ==
    CASE rule = "SentimentTurningUpRule"   -> SentimentTurningUpRule(cur, hist, id, t)
      [] rule = "SentimentTurningDownRule" -> SentimentTurningDownRule(cur, hist, id, t)
      [] rule = "FlowReversalRule"         -> FlowReversalRule(cur, hist, id, t)
      [] rule = "FlowWithdrawalRule"       -> FlowWithdrawalRule(cur, hist, id, t)
      [] rule = "ThemeEmergenceRule"       -> ThemeEmergenceRule(cur, hist, id, t)
      [] rule = "ThemeExhaustionRule"      -> ThemeExhaustionRule(cur, hist, id, t)

RECURSIVE EvaluateFrom(_, _, _, _, _, _)
EvaluateFrom(registered, i, cur, hist, cycle, t) ==
    IF i > Len(registered) THEN <<>>
    ELSE Evaluate(registered[i], cur, hist, <<cycle, i>>, t)
             \o EvaluateFrom(registered, i + 1, cur, hist, cycle, t)

RECURSIVE EvaluateFromPrepending(_, _, _, _, _, _)
EvaluateFromPrepending(registered, i, cur, hist, cycle, t) ==
    IF i > Len(registered) THEN <<>>
    ELSE EvaluateFromPrepending(registered, i + 1, cur, hist, cycle, t)
             \o Evaluate(registered[i], cur, hist, <<cycle, i>>, t)

EvaluateAllPrepending(registered, cur, hist, cycle, t) ==
    EvaluateFromPrepending(registered, 1, cur, hist, cycle, t)

ArgumentsAfterTrimmed(cur, hist) == <<cur, LastN(hist, 30)>>

(* lines 19-25 and the six evaluate methods: current_data is read by get, *)
(* history_window by truth test, len, slice and index, and neither is     *)
(* assigned to; the two arguments as the call leaves them.                *)
ArgumentsAfter(cur, hist) == <<cur, hist>>

(* lines 19-25: the events of the rules that fire, in the order of        *)
(* self.rules; the event of the rule at position i gets the id <<cycle, i>>*)
EvaluateAll(registered, cur, hist, cycle, t) ==
    EvaluateFrom(registered, 1, cur, hist, cycle, t)

CanonicalRulesTwice ==
    <<"SentimentTurningUpRule", "SentimentTurningDownRule",
      "FlowReversalRule", "FlowWithdrawalRule",
      "ThemeEmergenceRule", "ThemeExhaustionRule",
      "SentimentTurningUpRule", "SentimentTurningDownRule",
      "FlowReversalRule", "FlowWithdrawalRule",
      "ThemeEmergenceRule", "ThemeExhaustionRule">>

(* main.py lines 17-23, app.py: the registration order of the drivers *)
CanonicalRules == <<"SentimentTurningUpRule", "SentimentTurningDownRule",
                    "FlowReversalRule", "FlowWithdrawalRule",
                    "ThemeEmergenceRule", "ThemeExhaustionRule">>

----------------------------------------------------------------------------
(* state_manager.py *)

InitialState(t) ==
    MarketState(t, "yellow", 50, "float", "Initialization", "System starting up...")

WeightUneven(subtype) ==
    CASE subtype = "sentiment_turning_up"   -> 10
      [] subtype = "flow_reversal"          -> 3
      [] subtype = "theme_emergence"        -> 5
      [] subtype = "sentiment_turning_down" -> -10
      [] subtype = "flow_withdrawal"        -> -10
      [] subtype = "theme_exhaustion"       -> -5
      [] OTHER                              -> 0

(* lines 25-38: the change of the score one event brings *)
Weight(subtype) ==
    CASE subtype = "sentiment_turning_up"   -> 10
      [] subtype = "flow_reversal"          -> 5
      [] subtype = "theme_emergence"        -> 5
      [] subtype = "sentiment_turning_down" -> -10
      [] subtype = "flow_withdrawal"        -> -10
      [] subtype = "theme_exhaustion"       -> -5
      [] OTHER                              -> 0

RECURSIVE SumWeights(_)
SumWeights(evs) ==
    IF evs = <<>> THEN 0
    ELSE Weight(Head(evs).subtype) + SumWeights(Tail(evs))

ScoreChangeBuffered(new_events, buffered) == SumWeights(buffered)

(* lines 25-38: the loop runs over new_events, not over recent_events *)
ScoreChange(new_events, buffered) == SumWeights(new_events)

Min2(a, b) == IF a < b THEN a ELSE b
Max2(a, b) == IF a > b THEN a ELSE b

NewScoreUnclamped(score, score_change) == Min2(100, score + score_change)

(* line 40 *)
NewScore(score, score_change) == Max2(0, Min2(100, score + score_change))

(* line 40: the sum has the type of the old score (score_change is an     *)
(* int); min(100, sum) is the int 100 unless sum < 100, and max(0, ...)   *)
(* is the int 0 unless its second argument is above 0, so the new score   *)
(* keeps the type of the sum only strictly between 0 and 100.             *)
NewScoreType(score_type, score, score_change) ==
    IF 0 < score + score_change /\ score + score_change < 100
    THEN score_type ELSE "int"

StatusOfOpen(new_score) ==
    IF new_score > 70 THEN "green"
    ELSE IF new_score < 30 THEN "red"
    ELSE "yellow"

(* lines 43-48 *)
StatusOf(new_score) ==
    IF new_score >= 70 THEN "green"
    ELSE IF new_score <= 30 THEN "red"
    ELSE "yellow"

(* line 19 *)
PruneRecentClosed(recent, t) ==
    SelectSeq(recent, LAMBDA e : e.timestamp >= t - 1800)

PruneRecent(recent, t) ==
    SelectSeq(recent, LAMBDA e : e.timestamp > t - 1800)

DriverOfSeverest(state, new_events) ==
    IF new_events = <<>> THEN state.main_driver
    ELSE IF \E i \in 1..Len(new_events) : new_events[i].level = "high"
         THEN LET first == CHOOSE i \in 1..Len(new_events) :
                               /\ new_events[i].level = "high"
                               /\ \A j \in 1..(i - 1) : new_events[j].level # "high"
              IN  new_events[first].description
    ELSE new_events[Len(new_events)].description

DriverOfReset(state, new_events) ==
    IF new_events # <<>> THEN new_events[Len(new_events)].description
    ELSE "Initialization"

(* lines 51-56 *)
DriverOf(state, new_events) ==
    IF new_events # <<>> THEN new_events[Len(new_events)].description
    ELSE state.main_driver

(* lines 52-57 *)
SummaryOf(state, new_events) ==
    IF new_events # <<>>
    THEN "Updated by " \o new_events[Len(new_events)].subtype
    ELSE state.summary

(* The newest instance: the one self.current_state refers to *)
CurrentObject(objects) ==
    CHOOSE i \in DOMAIN objects : \A j \in DOMAIN objects : j <= i

ObjectsMutated(objects, new_state) ==
    [i \in {1, CurrentObject(objects)} |->
        IF i = CurrentObject(objects) THEN new_state ELSE objects[i]]

(* lines 59-65: MarketState(...) builds a new instance and                 *)
(* self.current_state is made to refer to it; no field of an existing      *)
(* instance is assigned.  Instances are numbered as they are built.  The   *)
(* model follows the instance of __init__ (number 1), the instance that    *)
(* was current before the call and the new one; update_state holds no      *)
(* reference to any other.                                                 *)
ObjectsAfter(objects, new_state) ==
    [i \in {1, CurrentObject(objects), CurrentObject(objects) + 1} |->
        IF i = CurrentObject(objects) + 1 THEN new_state ELSE objects[i]]

(* line 67: call number k returns the instance current_state refers to;   *)
(* remembered with it are the instance of __init__ (under 0) and what the  *)
(* call before returned.                                                   *)
Returned(returned, k, objects, new_state) ==
    [j \in {0, k - 1, k} |->
        IF j = k THEN [object |-> CurrentObject(objects), fields |-> new_state]
        ELSE returned[j]]

(* The MarketState update_state builds and returns (lines 25-65). *)
UpdatedState(state, new_events, buffered, t) ==
    LET new_score == NewScore(state.sentiment_score,
                              ScoreChange(new_events, buffered))
        new_type == NewScoreType(state.score_type, state.sentiment_score,
                                 ScoreChange(new_events, buffered))
    IN  MarketState(t, StatusOf(new_score), new_score, new_type,
                    DriverOf(state, new_events), SummaryOf(state, new_events))

----------------------------------------------------------------------------
(* notification_service.py *)

(* dict.get(key, 0) on last_sent_time, line 19 *)
LastTime(sent, subtype) ==
    IF subtype \in DOMAIN sent THEN sent[subtype] ELSE 0

PutSkipped(sent, subtype, t) == sent

(* dict assignment, line 22 *)
Put(sent, subtype, t) ==
    [k \in (DOMAIN sent) \cup {subtype} |-> IF k = subtype THEN t ELSE sent[k]]

PassesThrottleClosed(sent, event, t) == t - LastTime(sent, event.subtype) >= 1800

(* line 20 *)
PassesThrottle(sent, event, t) == t - LastTime(sent, event.subtype) > 1800

RECURSIVE ThrottleFilterRefreshing(_, _, _)
ThrottleFilterRefreshing(evs, sent, t) ==
    IF evs = <<>> THEN [unique |-> <<>>, sent |-> sent]
    ELSE LET event == Head(evs)
             rest == ThrottleFilterRefreshing(Tail(evs), Put(sent, event.subtype, t), t)
         IN  IF PassesThrottle(sent, event, t)
             THEN [unique |-> <<event>> \o rest.unique, sent |-> rest.sent]
             ELSE rest

ThrottleFilterAdmitAll(evs, sent, t) == [unique |-> evs, sent |-> sent]

(* lines 17-22: the loop that fills unique_events and updates the map *)
RECURSIVE ThrottleFilter(_, _, _)
ThrottleFilter(evs, sent, t) ==
    IF evs = <<>> THEN [unique |-> <<>>, sent |-> sent]
    ELSE LET event == Head(evs)
         IN  IF PassesThrottle(sent, event, t)
             THEN LET rest == ThrottleFilter(Tail(evs), Put(sent, event.subtype, t), t)
                  IN  [unique |-> <<event>> \o rest.unique, sent |-> rest.sent]
             ELSE ThrottleFilter(Tail(evs), sent, t)

(* a[:n] *)
Take(a, n) == SubSeq(a, 1, Min2(n, Len(a)))

Descriptions(evs) == [i \in 1..Len(evs) |-> evs[i].description]

EventIds(evs) == [i \in 1..Len(evs) |-> evs[i].event_id]

(* status.value.upper(), line 31 *)
Upper(status) ==
    CASE status = "red"    -> "RED"
      [] status = "yellow" -> "YELLOW"
      [] status = "green"  -> "GREEN"

(* The f-string of line 47 on sentiment_score: the float 55.0 prints as   *)
(* "55.0", the int 100 as "100".                                          *)
ScoreStr(score, score_type) ==
    IF score_type = "float" THEN ToString(score) \o ".0" ELSE ToString(score)

HighPriorityNotLow(unique) == SelectSeq(unique, LAMBDA e : e.level # "low")

(* line 28 *)
HighPriority(unique) == SelectSeq(unique, LAMBDA e : e.level = "high")

(* The titles of lines 37, 53 and 66 are Chinese text in the source; they *)
(* are written here in English.                                           *)
AlertTitle == "Important market alert"
CardTitle == "Multi-dimensional market signals"
FlashTitle == "Market flash"

AlertOfRelatingShown(high_priority_events, state, id, t) ==
    Notification(id, t, "alert", AlertTitle,
                 Append(Descriptions(Take(high_priority_events, 3)),
                        "Market Status: " \o Upper(state.status)),
                 EventIds(Take(high_priority_events, 3)))

(* lines 29-41 *)
AlertOf(high_priority_events, state, id, t) ==
    Notification(id, t, "alert", AlertTitle,
                 Append(Descriptions(Take(high_priority_events, 3)),
                        "Market Status: " \o Upper(state.status)),
                 EventIds(high_priority_events))

CardOfUntruncated(unique, state, id, t) ==
    Notification(id, t, "card", CardTitle,
                 Append(Descriptions(unique),
                        "Sentiment Score: " \o ScoreStr(state.sentiment_score,
                                                        state.score_type)),
                 EventIds(unique))

(* lines 45-57 *)
CardOf(unique, state, id, t) ==
    Notification(id, t, "card", CardTitle,
                 Append(Descriptions(Take(unique, 2)),
                        "Sentiment Score: " \o ScoreStr(state.sentiment_score,
                                                        state.score_type)),
                 EventIds(unique))

(* lines 60-70 *)
FlashOf(unique, state, id, t) ==
    Notification(id, t, "flash", FlashTitle,
                 <<unique[1].description>>, <<unique[1].event_id>>)

FormatAlertAndRest(unique, state, id, t) ==
    IF unique = <<>> THEN <<>>
    ELSE IF HighPriority(unique) # <<>>
         THEN LET rest == SelectSeq(unique, LAMBDA e : e.level # "high")
              IN  <<AlertOf(HighPriority(unique), state, id, t)>>
                      \o (IF rest = <<>> THEN <<>> ELSE <<FlashOf(rest, state, id, t)>>)
    ELSE IF Len(unique) >= 2 THEN <<CardOf(unique, state, id, t)>>
    ELSE <<FlashOf(unique, state, id, t)>>

FormatNoEscalation(unique, state, id, t) ==
    IF unique = <<>> THEN <<>>
    ELSE IF Len(unique) >= 2 THEN <<CardOf(unique, state, id, t)>>
    ELSE <<FlashOf(unique, state, id, t)>>

FormatNoFlash(unique, state, id, t) ==
    IF unique = <<>> THEN <<>>
    ELSE IF HighPriority(unique) # <<>>
         THEN <<AlertOf(HighPriority(unique), state, id, t)>>
    ELSE IF Len(unique) >= 2 THEN <<CardOf(unique, state, id, t)>>
    ELSE <<>>

(* lines 24-70: the list generate_notifications returns *)
Format(unique, state, id, t) ==
    IF unique = <<>> THEN <<>>
    ELSE IF HighPriority(unique) # <<>>
         THEN <<AlertOf(HighPriority(unique), state, id, t)>>
    ELSE IF Len(unique) >= 2 THEN <<CardOf(unique, state, id, t)>>
    ELSE <<FlashOf(unique, state, id, t)>>

NotifiedEventsAll(evs, unique) == evs

(* lines 24, 28, 45 and 60 read unique_events, not events: only admitted  *)
(* events reach a notification.                                           *)
NotifiedEvents(evs, unique) == unique

(* lines 25, 42 and 72: what the call appends to sent_notifications.  The *)
(* return of line 42 leaves the alert branch before the extend of line 72.*)
Logged(log, result) ==
    IF result # <<>> /\ result[1].format = "alert" THEN log
    ELSE log \o result

(* data_provider.py lines 42-52, MockDataProvider.__init__: trend 0.  The  *)
(* provider app.py builds at line 97 and at line 182.                     *)
MockDataProvider == [class |-> "MockDataProvider", trend |-> 0]

(* data_provider.py lines 112-118, AkShareDataProvider.__init__, where    *)
(* akshare is installed: an object without fields.                        *)
AkShareDataProvider == [class |-> "AkShareDataProvider"]

----------------------------------------------------------------------------
(* Initial state: RuleEngine(), StateManager() and NotificationService()  *)
(* just built, at a clock value of times; current_data and history_window *)
(* are the inputs evaluate_all will be given.                             *)
InitObjects(times, registered, lists, snapshots, histories) ==
    /\ now \in times
    /\ ticks = 0
    /\ op = "init"
    /\ calls = 0
    /\ events \in lists
    /\ current_state = InitialState(now)
    /\ recent_events = <<>>
    /\ prev_state = InitialState(now)
    /\ state_objects = [i \in {1} |-> InitialState(now)]
    /\ returned_states = [j \in {0} |-> [object |-> 1, fields |-> InitialState(now)]]
    /\ sent_notifications = <<>>
    /\ last_sent_time = EmptyDict
    /\ market_state = InitialState(now)
    /\ unique_events = <<>>
    /\ notifications = <<>>
    /\ emitted = <<>>
    /\ admitted = {}
    /\ presented = {}
    /\ log_before = <<>>
    /\ rules \in registered
    /\ current_data \in snapshots
    /\ history_window \in histories
    /\ passed_history = <<>>
    /\ data_provider = MockDataProvider

InitFull(times, registered, lists, snapshots, histories) ==
    /\ InitObjects(times, registered, lists, snapshots, histories)
    /\ departures = 0

InitWith(times, snapshots, histories) ==
    InitFull(times, {<<>>}, {<<>>}, snapshots, histories)

Init == InitWith(StartTimes, {EmptyDict}, {<<>>})

(* The clock advances by d seconds between two calls, most times in one  *)
(* behaviour.                                                             *)
Tick(d, most) ==
    /\ ticks < most
    /\ now' = now + d
    /\ ticks' = ticks + 1
    /\ op' = "tick"
    /\ UNCHANGED <<calls, events, smVars, nsVars, reVars, appVars>>

(* StateManager.update_state(new_events), lines 16-67, as one of at most  *)
(* most_calls calls that leave at most most_recent events buffered.       *)
update_state_within(new_events, most_calls, most_recent) ==
    /\ calls < most_calls
    /\ Len(PruneRecent(recent_events, now)) + Len(new_events) <= most_recent
    /\ LET buffered == PruneRecent(recent_events, now) \o new_events
           new_state == UpdatedState(current_state, new_events, buffered, now)
       IN  /\ recent_events' = buffered
           /\ current_state' = new_state
           /\ state_objects' = ObjectsAfter(state_objects, new_state)
           /\ returned_states' = Returned(returned_states, calls + 1, state_objects',
                                          new_state)
    /\ prev_state' = current_state
    /\ events' = new_events
    /\ op' = "update_state"
    /\ calls' = calls + 1
    /\ UNCHANGED <<now, ticks, nsVars, reVars, appVars>>

update_state(new_events) ==
    update_state_within(new_events, MaxUpdates, MaxRecent)

InitSM == InitWith({5000}, {EmptyDict}, {<<>>})

NextSM ==
    \/ \E d \in {1799, 1800} : Tick(d, MaxTicks)
    \/ \E ks \in OrderedEventSeqs(Subtypes, MaxEvents) :
          update_state(CycleEvents(ks, calls + 1, now))

SpecSM == InitSM /\ [][NextSM]_vars

(* Runs of update_state that carry the score past either end of its      *)
(* range: every call is given the events of one direction, up to all     *)
(* three of them (+20 or -25 in one call), and nothing bounds the buffer  *)
(* but the number of calls.                                               *)
RisingSubtypes ==
    {"sentiment_turning_up", "flow_reversal", "theme_emergence"}

FallingSubtypes ==
    {"sentiment_turning_down", "flow_withdrawal", "theme_exhaustion"}

ScoreLists ==
    {InOrder(chosen) : chosen \in (SUBSET RisingSubtypes) \cup (SUBSET FallingSubtypes)}

InitScore == InitWith({5000}, {EmptyDict}, {<<>>})

NextScore ==
    \/ Tick(1800, MaxWaits)
    \/ \E ks \in ScoreLists :
          update_state_within(CycleEvents(ks, calls + 1, now), MaxUpdates,
                              Cardinality(RisingSubtypes) * MaxUpdates)

SpecScore == InitScore /\ [][NextScore]_vars

(* NotificationService.generate_notifications(events, market_state),      *)
(* lines 11-73                                                             *)
generate_notifications(evs, state) ==
    /\ calls < MaxNotifies
    /\ LET filtered == ThrottleFilter(evs, last_sent_time, now)
           result == Format(NotifiedEvents(evs, filtered.unique), state,
                            <<"notif", calls + 1>>, now)
       IN  /\ last_sent_time' = filtered.sent
           /\ unique_events' = filtered.unique
           /\ notifications' = result
           /\ sent_notifications' = Logged(sent_notifications, result)
           /\ emitted' = emitted \o result
           /\ admitted' = admitted \cup
                  {[event |-> filtered.unique[i], time |-> now] :
                       i \in 1..Len(filtered.unique)}
    /\ presented' = presented \cup {events[i].subtype : i \in 1..Len(events)}
    /\ log_before' = sent_notifications
    /\ events' = evs
    /\ market_state' = state
    /\ op' = "generate_notifications"
    /\ calls' = calls + 1
    /\ UNCHANGED <<now, ticks, smVars, reVars, appVars>>

(* The MarketState argument tried: a red state. *)
MarketStates(t) ==
    {MarketState(t, StatusOf(score), score, "float", "Initialization",
                 "System starting up...") :
        score \in {30}}

(* The subtypes of the event lists tried: two of medium and one of high   *)
(* level.                                                                 *)
NotifiedSubtypes ==
    {"sentiment_turning_up", "flow_reversal", "flow_withdrawal"}

NextNS ==
    \/ \E d \in {1800, 1801} : Tick(d, MaxWaits)
    \/ \E ks \in EventSeqs(NotifiedSubtypes, MaxEvents) : \E state \in MarketStates(now) :
          generate_notifications(CycleEvents(ks, calls + 1, now), state)

SpecNS == Init /\ [][NextNS]_vars

(* One event list of any levels handed to generate_notifications: every   *)
(* subtype is absent or carries one of the three levels, and the list is  *)
(* in the order of EventSubtype or in the reverse order.                  *)
Reverse(a) == [i \in 1..Len(a) |-> a[Len(a) + 1 - i]]

LevelChoices == [Subtypes -> EventLevel \cup {"absent"}]

EventsOfLevels(lv, order, cycle, t) ==
    LET present == SelectSeq(order, LAMBDA k : lv[k] # "absent")
    IN  [i \in 1..Len(present) |->
            Event(<<cycle, i>>, t, present[i], lv[present[i]],
                  DescriptionOf(present[i], "Semiconductor"))]

LeveledLists(t) ==
    {EventsOfLevels(lv, order, 1, t) :
        lv \in LevelChoices, order \in {EventSubtype, Reverse(EventSubtype)}}

(* The MarketState arguments tried: a red, a yellow and a green state     *)
(* with a float score, and states with an int score, at the two ends of   *)
(* the range and between them, as update_state returns them once the      *)
(* score has been at 0 or 100.                                            *)
FormatStates(t) ==
    {MarketState(t, StatusOf(score), score, "float", "Initialization",
                 "System starting up...") :
        score \in {30, 50, 70}}
    \cup {MarketState(t, StatusOf(score), score, "int", "Initialization",
                      "System starting up...") :
              score \in {0, 90, 100}}

(* The caller holds one event list and passes it to generate_notifications *)
(* with some MarketState; a repeated call passes the same list at the same *)
(* clock value.                                                            *)
InitFormat == InitFull({5000}, {<<>>}, LeveledLists(5000), {EmptyDict}, {<<>>})

NextFormat == \E state \in FormatStates(now) : generate_notifications(events, state)

SpecFormat == InitFormat /\ [][NextFormat]_vars

(* RuleEngine.add_rule(rule), lines 16-17.  Any rule may be registered    *)
(* while fewer than MaxRules are; beyond that the registration follows    *)
(* main.py.                                                               *)
add_rule(rule) ==
    /\ \/ Len(rules) < MaxRules
       \/ /\ Len(rules) < Len(CanonicalRules)
          /\ Append(rules, rule) = SubSeq(CanonicalRules, 1, Len(rules) + 1)
    /\ rules' = Append(rules, rule)
    /\ op' = "add_rule"
    /\ UNCHANGED <<now, ticks, calls, events, smVars, nsVars,
                   current_data, history_window, passed_history, appVars>>

(* RuleEngine.evaluate_all(current_data, history_window), lines 19-25 *)
evaluate_all ==
    /\ calls < MaxEvaluations
    /\ events' = EvaluateAll(rules, current_data, history_window, calls + 1, now)
    /\ passed_history' = history_window
    /\ current_data' = ArgumentsAfter(current_data, history_window)[1]
    /\ history_window' = ArgumentsAfter(current_data, history_window)[2]
    /\ op' = "evaluate_all"
    /\ calls' = calls + 1
    /\ UNCHANGED <<now, ticks, smVars, nsVars, rules, appVars>>

(* Snapshots tried: every field present with one of two values, or no     *)
(* field at all.  index_change_pct is in tenths of a percent.             *)
Snapshots ==
    {EmptyDict} \cup
    [volume : {1000000, 1400000},
     index_change_pct : {-5, 5},
     north_bound_flow : {-15000000, 300000},
     limit_down_count : {0, 4},
     bomb_rate : {35},
     top_sector : {"Banking", "Semiconductor"},
     top_sector_change_pct : {-3, 1}]

(* main.py line 40: the volume of a baseline entry is                     *)
(* 1000000 + random.randint(-100000, 100000).                             *)
BaselineVolumes == 900000..1100000

(* The draws tried: randint at its lower bound, at 0 and at its upper     *)
(* bound.                                                                 *)
DrawnVolumes == {v \in BaselineVolumes : v % 100000 = 0}

(* main.py lines 38-46: the data_point built at clock value t with the    *)
(* volume drawn.                                                          *)
BaselineEntry(t, volume) ==
    [timestamp |-> t, volume |-> volume, index_change_pct |-> 0,
     north_bound_flow |-> 0, limit_down_count |-> 0, bomb_rate |-> 5,
     top_sector |-> "Banking"]

(* main.py lines 51-59: the snapshot of scenario 2, built at clock value t *)
SentimentTurningUp(t) ==
    [timestamp |-> t, volume |-> 1400000, index_change_pct |-> 5,
     north_bound_flow |-> 500000, limit_down_count |-> 0, bomb_rate |-> 5,
     top_sector |-> "Banking"]

(* main.py lines 69-77: the snapshot of scenario 3, built at clock value t *)
FlowReversal(t) ==
    [timestamp |-> t, volume |-> 1100000, index_change_pct |-> 2,
     north_bound_flow |-> 300000, limit_down_count |-> 0, bomb_rate |-> 5,
     top_sector |-> "Banking"]

(* main.py lines 85-94: the snapshot of scenario 4, built at clock value t *)
MultipleEvents(t) ==
    [timestamp |-> t, volume |-> 1000000, index_change_pct |-> -5,
     north_bound_flow |-> 0, limit_down_count |-> 4, bomb_rate |-> 35,
     top_sector |-> "Semiconductor", top_sector_change_pct |-> 1]

(* Entries main.py puts in the history: a baseline entry of each draw     *)
(* tried (lines 38-47), the snapshot of scenario 2 after line 66 has set  *)
(* its flow to -200000 (lines 62 and 66), and the snapshot of scenario 4  *)
(* (line 99), whose leading sector is another.                            *)
HistoryEntries(t) ==
    {BaselineEntry(t, volume) : volume \in DrawnVolumes}
    \cup {[SentimentTurningUp(t) EXCEPT !.north_bound_flow = -200000],
          MultipleEvents(t)}

(* Histories tried: n entries, baseline entries of draw 0 but the last,   *)
(* which is any entry of HistoryEntries, and the one 15 places from the   *)
(* end, which may be the snapshot of scenario 4.                          *)
HistoryLengths == {0, 1, 14, 15, 16}

Histories(t) ==
    {[i \in 1..n |-> IF i = n THEN last
                     ELSE IF i = n - 14 THEN old
                     ELSE BaselineEntry(t, 1000000)] :
        n \in HistoryLengths, last \in HistoryEntries(t),
        old \in {BaselineEntry(t, 1000000), MultipleEvents(t)}}

InitRE == InitWith({5000}, Snapshots, Histories(5000))

NextRE ==
    \/ \E rule \in RuleClasses : add_rule(rule)
    \/ evaluate_all

SpecRE == InitRE /\ [][NextRE]_vars

(* The six rules registered as main.py does, one snapshot and one history *)
(* handed to evaluate_all.  RuleSnapshots puts each field on both sides   *)
(* of the threshold its rule compares it with; a snapshot may also hold   *)
(* only the three fields SentimentTurningDownRule reads, or none.         *)
RuleSnapshots ==
    {EmptyDict}
    \cup [index_change_pct : {-5, 0, 5}, limit_down_count : {3, 4}, bomb_rate : {30, 35}]
    \cup [volume : {1300000, 1300001, 1400000},
          index_change_pct : {-5, 0, 5},
          north_bound_flow : {-10000001, -10000000, 300000},
          limit_down_count : {3, 4},
          bomb_rate : {30, 35},
          top_sector : {"", "Banking", "Semiconductor"},
          top_sector_change_pct : {-3, -2}]

(* A history of n entries shaped as those of main.py lines 38-46, built   *)
(* at clock value t.  vols: every volume is 1000000 ("base"), 900000      *)
(* ("low") or 1100000 ("high"), the draws of line 40 tried; or, beyond    *)
(* what main.py draws, the first is 40000000 ("outlier") or all are 0     *)
(* ("zero").  flows: every flow is 0 ("flat"), or the entry before the    *)
(* last is -200000, or the last is -200000 (line 66) or 300000.  sectors: *)
(* every leading sector is Banking ("same"), or the entry 15 places from  *)
(* the end, or the last entry, is Semiconductor.                          *)
RuleHistory(n, vols, flows, sectors, t) ==
    [i \in 1..n |->
        [BaselineEntry(t, 1000000) EXCEPT
            !.volume = IF vols = "zero" THEN 0
                       ELSE IF vols = "outlier" /\ i = 1 THEN 40000000
                       ELSE IF vols = "low" THEN 900000
                       ELSE IF vols = "high" THEN 1100000
                       ELSE 1000000,
            !.north_bound_flow =
                IF flows = "prev_negative" /\ i = n - 1 THEN -200000
                ELSE IF flows = "last_negative" /\ i = n THEN -200000
                ELSE IF flows = "last_positive" /\ i = n THEN 300000
                ELSE 0,
            !.top_sector =
                IF sectors = "old" /\ i = n - 14 THEN "Semiconductor"
                ELSE IF sectors = "last" /\ i = n THEN "Semiconductor"
                ELSE "Banking"]]

RuleHistoryLengths == {0, 1, 14, 15, 16, 30, 31}

(* A history of n entries that hold no field at all *)
BareHistory(n) == [i \in 1..n |-> EmptyDict]

RuleHistories(t) ==
    {RuleHistory(n, vols, flows, sectors, t) :
        n \in RuleHistoryLengths,
        vols \in {"base", "low", "high", "outlier", "zero"},
        flows \in {"flat", "prev_negative", "last_negative", "last_positive"},
        sectors \in {"same", "old", "last"}}
    \cup {BareHistory(n) : n \in {1, 15}}

InitRules ==
    InitFull({5000}, {CanonicalRules}, {<<>>}, RuleSnapshots, RuleHistories(5000))

NextRules == evaluate_all

SpecRules == InitRules /\ [][NextRules]_vars

----------------------------------------------------------------------------
(* Properties of the State Manager, checked under SpecSM and SpecScore *)

(* C1: after any sequence of update_state calls from the initial state    *)
(* (score 50), with any event list per call, the sentiment score of the   *)
(* current MarketState lies within [0, 100].  Checked under SpecScore,    *)
(* whose runs take the sum of score and weights to 110 and to -25.        *)
C1_ScoreInRange ==
    /\ current_state.sentiment_score >= 0
    /\ current_state.sentiment_score <= 100

(* The clamp acted at the upper end: the weights carried the sum above    *)
(* 100, and the score is 100.                                             *)
C1_Witness ==
    /\ op = "update_state"
    /\ prev_state.sentiment_score + SumWeights(events) > 100
    /\ current_state.sentiment_score = 100

(* The clamp acted at the lower end: the weights carried the sum below 0. *)
C1_WitnessLower ==
    /\ op = "update_state"
    /\ prev_state.sentiment_score + SumWeights(events) < 0
    /\ current_state.sentiment_score = 0

(* C2: in the initial state and in every state update_state produces the  *)
(* status is fixed by the score alone: green iff score >= 70, red iff     *)
(* score <= 30, yellow otherwise.                                         *)
C2_StatusByScore ==
    LET score == current_state.sentiment_score
        status == current_state.status
    IN  /\ status \in MarketStatus
        /\ (status = "green") <=> (score >= 70)
        /\ (status = "red") <=> (score <= 30)
        /\ (status = "yellow") <=> (score > 30 /\ score < 70)

(* update_state produced the boundary score 70, and it is green. *)
C2_Witness ==
    /\ op = "update_state"
    /\ prev_state.sentiment_score # 70
    /\ current_state.sentiment_score = 70
    /\ current_state.status = "green"

(* The weight table as section 4.2 of the specification states it. *)
C7_Weight(subtype) ==
    IF subtype = "sentiment_turning_up" THEN 10
    ELSE IF subtype \in {"flow_reversal", "theme_emergence"} THEN 5
    ELSE IF subtype \in {"sentiment_turning_down", "flow_withdrawal"} THEN -10
    ELSE IF subtype = "theme_exhaustion" THEN -5
    ELSE 0

RECURSIVE C7_Delta(_)
C7_Delta(evs) ==
    IF Len(evs) = 0 THEN 0
    ELSE C7_Delta(SubSeq(evs, 1, Len(evs) - 1)) + C7_Weight(evs[Len(evs)].subtype)

(* C7: update_state sets the score to clamp(previous score + delta, 0,    *)
(* 100), delta being the sum of the fixed weights over this cycle's       *)
(* events only; events of earlier cycles still in recent_events add       *)
(* nothing.                                                               *)
C7_ScoreIsClampedSum ==
    op = "update_state" =>
        LET target == prev_state.sentiment_score + C7_Delta(events)
        IN  current_state.sentiment_score =
                (IF target < 0 THEN 0 ELSE IF target > 100 THEN 100 ELSE target)

(* A cycle with a non-zero delta while an earlier cycle's events, of      *)
(* non-zero weight themselves, are still buffered.                        *)
C7_Witness ==
    /\ op = "update_state"
    /\ events # <<>>
    /\ C7_Delta(events) # 0
    /\ Len(recent_events) > Len(events)
    /\ C7_Delta(recent_events) # C7_Delta(events)
    /\ current_state.sentiment_score = prev_state.sentiment_score + C7_Delta(events)

(* C8: update_state with an empty event list returns a state whose score, *)
(* status, main_driver and summary equal those of the previous state.     *)
C8_EmptyCycleKeepsState ==
    (op = "update_state" /\ events = <<>>) =>
        /\ current_state.sentiment_score = prev_state.sentiment_score
        /\ current_state.status = prev_state.status
        /\ current_state.main_driver = prev_state.main_driver
        /\ current_state.summary = prev_state.summary

(* An empty cycle after a cycle with events, at a later clock value: the  *)
(* driver carried forward is an event's, and the timestamp has moved.     *)
C8_Witness ==
    /\ op = "update_state"
    /\ events = <<>>
    /\ prev_state.main_driver # "Initialization"
    /\ current_state.main_driver = prev_state.main_driver
    /\ current_state.timestamp # prev_state.timestamp

C23_Summary(subtype) ==
    CASE subtype = "sentiment_turning_up"   -> "Updated by sentiment_turning_up"
      [] subtype = "sentiment_turning_down" -> "Updated by sentiment_turning_down"
      [] subtype = "flow_reversal"          -> "Updated by flow_reversal"
      [] subtype = "flow_withdrawal"        -> "Updated by flow_withdrawal"
      [] subtype = "theme_emergence"        -> "Updated by theme_emergence"
      [] subtype = "theme_exhaustion"       -> "Updated by theme_exhaustion"

(* C23: after an update_state call with at least one event, main_driver   *)
(* is the description of the last event of the list and summary names     *)
(* that event's subtype, whatever the levels of the events before it.     *)
C23_DriverIsLastEvent ==
    (op = "update_state" /\ events # <<>>) =>
        /\ current_state.main_driver = events[Len(events)].description
        /\ current_state.summary = C23_Summary(events[Len(events)].subtype)

(* A high event followed by a medium one: the medium one is the driver *)
C23_Witness ==
    /\ op = "update_state"
    /\ Len(events) = 2
    /\ events[1].level = "high"
    /\ events[2].level = "medium"
    /\ current_state.main_driver = events[2].description
    /\ current_state.main_driver # events[1].description

(* C26: update_state makes current_state a new MarketState instance and   *)
(* assigns no field of an earlier one: the instance of construction,      *)
(* after any number of calls, and the instance the call before returned   *)
(* still have the field values they were built with, and no two of the    *)
(* calls followed returned the same instance.                             *)
C26_ReturnedStatesKeepFields ==
    /\ \A k \in DOMAIN returned_states :
           /\ returned_states[k].object \in DOMAIN state_objects
           /\ state_objects[returned_states[k].object] = returned_states[k].fields
    /\ \A k, l \in DOMAIN returned_states :
           returned_states[k].object = returned_states[l].object => k = l
    /\ calls \in DOMAIN returned_states
    /\ current_state = state_objects[returned_states[calls].object]

(* After three calls the instance of construction still scores 50 and the *)
(* one the second call returned still scores 60, the current one 45.      *)
C26_Witness ==
    /\ op = "update_state"
    /\ calls = 3
    /\ state_objects[returned_states[0].object].sentiment_score = 50
    /\ state_objects[returned_states[0].object].main_driver = "Initialization"
    /\ state_objects[returned_states[2].object].sentiment_score = 60
    /\ current_state.sentiment_score = 45

(* The events of buffer that are less than 1800 seconds old at time t, in *)
(* their order                                                            *)
RECURSIVE C30_Younger(_, _)
C30_Younger(buffer, t) ==
    IF buffer = <<>> THEN <<>>
    ELSE IF t - Head(buffer).timestamp < 1800
         THEN <<Head(buffer)>> \o C30_Younger(Tail(buffer), t)
         ELSE C30_Younger(Tail(buffer), t)

(* C30: every update_state call at time t leaves in the buffer the events *)
(* it held that are less than 1800 seconds old at t, in their order, and  *)
(* after them the events of the call in their order: an event of an       *)
(* earlier call that is 1800 seconds old or older goes, a younger one     *)
(* stays.                                                                 *)
C30_BufferPrunedThenExtended ==
    [][op' = "update_state" =>
           recent_events' = C30_Younger(recent_events, now') \o events']_vars

(* The buffer holds an event 1799 seconds old ahead of the events of the  *)
(* call, an event of the first call, 3599 seconds old, having gone.       *)
C30_Witness ==
    /\ op = "update_state"
    /\ calls = 3
    /\ events # <<>>
    /\ Len(recent_events) = Len(events) + 1
    /\ recent_events[1].event_id[1] = 2
    /\ now - recent_events[1].timestamp = 1799
    /\ now = 5000 + 1800 + 1799

(* C37: from the initial score 50, after any sequence of update_state     *)
(* calls on events of the six subtypes, the sentiment score is a multiple *)
(* of 5 between 0 and 100.                                                *)
C37_ScoreIsMultipleOfFive ==
    /\ current_state.sentiment_score \in {5 * k : k \in 0..20}
    /\ prev_state.sentiment_score \in {5 * k : k \in 0..20}
    /\ \A i \in 1..Len(recent_events) : recent_events[i].subtype \in Subtypes

(* After an earlier call had moved the score off 50 to another multiple   *)
(* of 10, a call brought it to an odd multiple of 5.                      *)
C37_Witness ==
    /\ op = "update_state"
    /\ events # <<>>
    /\ prev_state.sentiment_score # 50
    /\ prev_state.sentiment_score % 10 = 0
    /\ current_state.sentiment_score % 10 = 5

----------------------------------------------------------------------------
(* Properties of the Notification Service, checked under SpecNS *)

IdsOf(evs) == {evs[i].event_id : i \in 1..Len(evs)}

(* The ids that some emitted notification names in related_events. *)
NotifiedIds ==
    UNION {{emitted[n].related_events[k] : k \in 1..Len(emitted[n].related_events)} :
              n \in 1..Len(emitted)}

(* C3: two events of one subtype are never both admitted unless more than *)
(* 1800 seconds separate the two admissions; an event that arrives 1800   *)
(* seconds or less after an admission of its subtype is not admitted and  *)
(* is in no notification.                                                 *)
C3_ThrottleSeparatesAdmissions ==
    /\ \A a \in admitted : \A b \in admitted :
          (a.event.subtype = b.event.subtype /\ a.event.event_id # b.event.event_id)
              => (a.time - b.time > 1800 \/ b.time - a.time > 1800)
    /\ op = "generate_notifications" =>
          \A i \in 1..Len(events) :
              (\E a \in admitted :
                  /\ a.event.subtype = events[i].subtype
                  /\ a.event.event_id # events[i].event_id
                  /\ a.time <= now
                  /\ now - a.time <= 1800)
              => /\ events[i].event_id \notin IdsOf(unique_events)
                 /\ events[i].event_id \notin NotifiedIds

(* An event arrived exactly 1800 seconds after the admission of another   *)
(* event of its subtype, and was throttled.                               *)
C3_Witness ==
    /\ op = "generate_notifications"
    /\ \E i \in 1..Len(events) : \E a \in admitted :
          /\ a.event.subtype = events[i].subtype
          /\ now - a.time = 1800
          /\ events[i].event_id \notin IdsOf(unique_events)

(* C4: the first event of a subtype ever presented to a service is always *)
(* admitted by the throttle filter, whatever the clock value.             *)
C4_FirstEventAdmitted ==
    op = "generate_notifications" =>
        \A i \in 1..Len(events) :
            (/\ events[i].subtype \notin presented
             /\ \A j \in 1..(i - 1) : events[j].subtype # events[i].subtype)
            => events[i].event_id \in IdsOf(unique_events)

(* C5: whenever an event admitted in a cycle is of high level the call    *)
(* returns exactly one notification, an alert, whatever else was admitted.*)
C5_HighMeansOneAlert ==
    (op = "generate_notifications" /\
     \E i \in 1..Len(unique_events) : unique_events[i].level = "high") =>
        /\ Len(notifications) = 1
        /\ notifications[1].format = "alert"

(* A cycle that admitted a high event after a medium one. *)
C5_Witness ==
    /\ op = "generate_notifications"
    /\ Len(unique_events) >= 2
    /\ unique_events[1].level = "medium"
    /\ \E i \in 2..Len(unique_events) : unique_events[i].level = "high"
    /\ Len(notifications) = 1

(* C6: every call returns a list of length 0 or 1, empty exactly when no  *)
(* event of the cycle survives throttling.                                *)
C6_ZeroOrOneNotification ==
    op = "generate_notifications" =>
        /\ Len(notifications) \in {0, 1}
        /\ (notifications = <<>>) <=> (unique_events = <<>>)

(* A non-empty cycle all of whose events were throttled. *)
C6_Witness ==
    /\ op = "generate_notifications"
    /\ events # <<>>
    /\ unique_events = <<>>
    /\ notifications = <<>>
    /\ DOMAIN last_sent_time # {}

(* C10: every notification returned, of any format, is appended to        *)
(* sent_notifications in the same call, so the log holds exactly the      *)
(* notifications emitted, in emission order.                              *)
C10_LogHoldsEmitted ==
    /\ sent_notifications = emitted
    /\ op = "generate_notifications" =>
          sent_notifications = log_before \o notifications

(* C11: each id in the related_events of an emitted notification is the   *)
(* id of an event of the list passed to that same call and admitted by    *)
(* the throttle in that call; no id of an event of an earlier cycle or of *)
(* a throttled event appears.                                             *)
C11_RelatedEventsOfThisCycle ==
    op = "generate_notifications" =>
        \A n \in 1..Len(notifications) :
            \A k \in 1..Len(notifications[n].related_events) :
                LET id == notifications[n].related_events[k]
                IN  /\ id \in IdsOf(events)
                    /\ id \in IdsOf(unique_events)
                    /\ id[1] = calls
                    /\ \A a \in admitted : a.event.event_id = id => a.time = now

(* A second cycle that emits a notification although one of its events    *)
(* was throttled, an event of the first cycle having been admitted.       *)
C11_Witness ==
    /\ op = "generate_notifications"
    /\ calls = 2
    /\ notifications # <<>>
    /\ \E i \in 1..Len(events) : events[i].event_id \notin IdsOf(unique_events)
    /\ \E a \in admitted : a.event.event_id[1] = 1

(* C28: the last-sent time of a subtype is set as soon as an event of it  *)
(* is admitted, before the next event of the call is examined: of the     *)
(* events of one subtype in one list none but the first is admitted, and  *)
(* the first is admitted exactly when the map as it was before the call   *)
(* lets it pass.                                                          *)
C28_OnlyFirstOfSubtypeAdmitted ==
    op = "generate_notifications" =>
        /\ \A i, j \in 1..Len(events) :
               (i < j /\ events[i].subtype = events[j].subtype) =>
                   events[j].event_id \notin IdsOf(unique_events)
        /\ \A i, j \in 1..Len(unique_events) :
               unique_events[i].subtype = unique_events[j].subtype => i = j
        /\ \A i \in 1..Len(unique_events) :
               /\ unique_events[i].subtype \in DOMAIN last_sent_time
               /\ last_sent_time[unique_events[i].subtype] = now

(* A list of two events of one subtype: the first is admitted, the second *)
(* is not.                                                                *)
C28_Witness ==
    /\ op = "generate_notifications"
    /\ Len(events) = 2
    /\ events[1].subtype = events[2].subtype
    /\ unique_events = <<events[1]>>

(* The admissions of events that are not high in a call that emitted an   *)
(* alert                                                                  *)
C29_Suppressed ==
    {a \in admitted :
        /\ a.event.level # "high"
        /\ \E n \in 1..Len(emitted) :
               /\ emitted[n].format = "alert"
               /\ emitted[n].notification_id[2] = a.event.event_id[1]}

(* C29: a medium or low event admitted in a call that emits an alert is   *)
(* in no line of that alert and in the related_events of no notification, *)
(* then or later, yet its subtype's last-sent time is set: an event of    *)
(* the subtype presented at most 1800 seconds later is throttled and is   *)
(* carried by no notification either.                                     *)
C29_SuppressedYetThrottling ==
    \A a \in C29_Suppressed :
        /\ \A n \in 1..Len(emitted) :
               /\ \A k \in 1..Len(emitted[n].related_events) :
                      emitted[n].related_events[k] # a.event.event_id
               /\ emitted[n].notification_id[2] = a.event.event_id[1] =>
                      \A l \in 1..Len(emitted[n].lines) :
                          emitted[n].lines[l] # a.event.description
        /\ a.event.subtype \in DOMAIN last_sent_time
        /\ last_sent_time[a.event.subtype] >= a.time
        /\ (op = "generate_notifications" /\ now - a.time <= 1800) =>
               \A i \in 1..Len(events) :
                   (/\ events[i].subtype = a.event.subtype
                    /\ events[i].event_id # a.event.event_id) =>
                       /\ events[i].event_id \notin IdsOf(unique_events)
                       /\ \A n \in 1..Len(emitted) :
                              \A k \in 1..Len(emitted[n].related_events) :
                                  emitted[n].related_events[k] # events[i].event_id

(* The first call emitted an alert and admitted a medium event; exactly   *)
(* 1800 seconds later the second call presents the subtype again, alone,  *)
(* and returns nothing.                                                   *)
C29_Witness ==
    /\ op = "generate_notifications"
    /\ calls = 2
    /\ Len(events) = 1
    /\ \E a \in C29_Suppressed :
           /\ a.event.subtype = events[1].subtype
           /\ a.event.event_id[1] = 1
           /\ now - a.time = 1800
    /\ notifications = <<>>
    /\ Len(emitted) = 1

----------------------------------------------------------------------------
(* Properties of the notification formats, checked under SpecFormat *)

(* The events of the call whose description is a line of notification n *)
C12_Shown(n) ==
    {i \in 1..Len(events) :
        \E k \in 1..Len(n.lines) : n.lines[k] = events[i].description}

C12_Related(n) ==
    {i \in 1..Len(events) :
        \E k \in 1..Len(n.related_events) : n.related_events[k] = events[i].event_id}

(* C12 as stated: the events whose id is in related_events are exactly    *)
(* the events whose description is a line of the notification.            *)
C12_RelatedAreExactlyShown ==
    op = "generate_notifications" =>
        \A j \in 1..Len(notifications) :
            C12_Related(notifications[j]) = C12_Shown(notifications[j])

(* C12 amended: every event whose description is a line has its id in     *)
(* related_events, and related_events lists the ids of all admitted high  *)
(* events of an alert, or of all admitted events of a card or flash, in   *)
(* list order, the events past the third (alert) or second (card) that    *)
(* contribute no line included.                                           *)
C12_RelatedCoversGroup ==
    op = "generate_notifications" =>
        \A j \in 1..Len(notifications) :
            LET n == notifications[j]
                group == IF n.format = "alert"
                         THEN SelectSeq(unique_events, LAMBDA e : e.level = "high")
                         ELSE unique_events
            IN  /\ C12_Shown(n) \subseteq C12_Related(n)
                /\ Len(n.related_events) = Len(group)
                /\ \A k \in 1..Len(group) : n.related_events[k] = group[k].event_id

(* An alert over four admitted high events, and a card over three         *)
(* admitted events: each relates an event it does not show.               *)
C12_Witness ==
    /\ op = "generate_notifications"
    /\ notifications # <<>>
    /\ C12_Related(notifications[1]) # C12_Shown(notifications[1])
    /\ \/ notifications[1].format = "alert" /\ Len(notifications[1].related_events) = 4
       \/ notifications[1].format = "card" /\ Len(notifications[1].related_events) = 3

C13_StatusLine(status) ==
    CASE status = "red"    -> "Market Status: RED"
      [] status = "yellow" -> "Market Status: YELLOW"
      [] status = "green"  -> "Market Status: GREEN"

C13_AdmittedHigh == SelectSeq(unique_events, LAMBDA e : e.level = "high")

(* C13: the lines of an alert are the descriptions of the first min(3, k) *)
(* of the k admitted high events, in list order, followed by exactly one  *)
(* line stating the status of the MarketState passed in; no description   *)
(* of an admitted medium or low event is a line of an alert.              *)
C13_AlertLines ==
    op = "generate_notifications" =>
        \A j \in 1..Len(notifications) :
            notifications[j].format = "alert" =>
                LET lines == notifications[j].lines
                    k == Len(C13_AdmittedHigh)
                    m == IF k < 3 THEN k ELSE 3
                IN  /\ k >= 1
                    /\ Len(lines) = m + 1
                    /\ \A i \in 1..m : lines[i] = C13_AdmittedHigh[i].description
                    /\ lines[m + 1] = C13_StatusLine(market_state.status)
                    /\ \A i \in 1..Len(unique_events) :
                           unique_events[i].level # "high" =>
                               \A l \in 1..Len(lines) :
                                   lines[l] # unique_events[i].description

(* An alert of a call that admitted four high events and, ahead of them   *)
(* in the list, an event that is not high.                                *)
C13_Witness ==
    /\ op = "generate_notifications"
    /\ notifications # <<>>
    /\ notifications[1].format = "alert"
    /\ Len(C13_AdmittedHigh) = 4
    /\ unique_events[1].level # "high"
    /\ market_state.status = "green"

(* The score line as Python prints the score: a float with its decimal   *)
(* point, an int without.                                                 *)
C14_ScoreLine(state) ==
    CASE state.sentiment_score = 30 /\ state.score_type = "float" -> "Sentiment Score: 30.0"
      [] state.sentiment_score = 50 /\ state.score_type = "float" -> "Sentiment Score: 50.0"
      [] state.sentiment_score = 70 /\ state.score_type = "float" -> "Sentiment Score: 70.0"
      [] state.sentiment_score = 0 /\ state.score_type = "int" -> "Sentiment Score: 0"
      [] state.sentiment_score = 90 /\ state.score_type = "int" -> "Sentiment Score: 90"
      [] state.sentiment_score = 100 /\ state.score_type = "int" -> "Sentiment Score: 100"
      [] OTHER -> "no such state"

(* C14: when no admitted event is high, two or more admitted events give  *)
(* exactly one notification, a card whose lines are the descriptions of   *)
(* the first two admitted events in list order and then one line with the *)
(* sentiment score of the MarketState passed in; exactly one admitted     *)
(* event gives exactly one notification, a flash whose only line is that  *)
(* event's description.                                                   *)
C14_CardAndFlashLines ==
    (op = "generate_notifications" /\ C13_AdmittedHigh = <<>>) =>
        /\ Len(unique_events) >= 2 =>
               /\ Len(notifications) = 1
               /\ notifications[1].format = "card"
               /\ notifications[1].lines =
                      <<unique_events[1].description, unique_events[2].description,
                        C14_ScoreLine(market_state)>>
        /\ Len(unique_events) = 1 =>
               /\ Len(notifications) = 1
               /\ notifications[1].format = "flash"
               /\ notifications[1].lines = <<unique_events[1].description>>

(* A card of a call that admitted three events, none of them high. *)
C14_Witness ==
    /\ op = "generate_notifications"
    /\ C13_AdmittedHigh = <<>>
    /\ Len(unique_events) = 3
    /\ Len(notifications) = 1
    /\ notifications[1].format = "card"
    /\ market_state.sentiment_score = 70

----------------------------------------------------------------------------
(* Properties of the Rule Engine, checked under SpecRE *)

(* The subtype each rule class emits, as section 4.1 lists them. *)
C9_RuleSubtype(rule) ==
    CASE rule = "SentimentTurningUpRule"   -> "sentiment_turning_up"
      [] rule = "SentimentTurningDownRule" -> "sentiment_turning_down"
      [] rule = "FlowReversalRule"         -> "flow_reversal"
      [] rule = "FlowWithdrawalRule"       -> "flow_withdrawal"
      [] rule = "ThemeEmergenceRule"       -> "theme_emergence"
      [] rule = "ThemeExhaustionRule"      -> "theme_exhaustion"

C9_Position(subtype) == CHOOSE i \in 1..Len(EventSubtype) : EventSubtype[i] = subtype

(* C9: evaluate_all invokes every registered rule once with (snapshot,    *)
(* history) and returns the emitted events in registration order, at most *)
(* one per registered rule; with the six rules registered as in main.py   *)
(* the result is a subsequence of [turning_up, turning_down,              *)
(* flow_reversal, flow_withdrawal, theme_emergence, theme_exhaustion]     *)
(* with no subtype repeated.                                              *)
C9_EventsInRegistrationOrder ==
    op = "evaluate_all" =>
        /\ \A k \in 1..Len(events) :
              /\ events[k].event_id[1] = calls
              /\ events[k].event_id[2] \in 1..Len(rules)
              /\ events[k].subtype = C9_RuleSubtype(rules[events[k].event_id[2]])
        /\ \A k \in 1..(Len(events) - 1) :
              events[k].event_id[2] < events[k + 1].event_id[2]
        /\ \A i \in 1..Len(rules) :
              (\E k \in 1..Len(events) : events[k].event_id[2] = i)
                  <=> Evaluate(rules[i], current_data, history_window, <<calls, i>>, now) # <<>>
        /\ rules = CanonicalRules =>
              \A k \in 1..(Len(events) - 1) :
                  C9_Position(events[k].subtype) < C9_Position(events[k + 1].subtype)

(* The six rules registered as in main.py, four of them firing. *)
C9_Witness ==
    /\ op = "evaluate_all"
    /\ rules = CanonicalRules
    /\ Len(events) = 4
    /\ events[1].subtype = "sentiment_turning_down"
    /\ events[4].subtype = "theme_exhaustion"

PassedStatePrevious(old_state, new_state) == old_state

(* main.py lines 114 and 118, app.py lines 153 and 156: the state given   *)
(* to generate_notifications is the one update_state has just returned.   *)
PassedState(old_state, new_state) == new_state

(* main.py process_step, lines 102-118, with the append of lines 62, 80   *)
(* and 99: evaluate_all, then update_state on its events, then            *)
(* generate_notifications on the events and the new state, then the       *)
(* snapshot joins the history.                                            *)
process_step(data) ==
    /\ calls < MaxCycles
    /\ LET evs == EvaluateAll(rules, data, history_window, calls + 1, now)
           buffered == PruneRecent(recent_events, now) \o evs
           new_state == UpdatedState(current_state, evs, buffered, now)
           filtered == ThrottleFilter(evs, last_sent_time, now)
           passed == PassedState(current_state, new_state)
           result == Format(NotifiedEvents(evs, filtered.unique), passed,
                            <<"notif", calls + 1>>, now)
       IN  /\ events' = evs
           /\ recent_events' = buffered
           /\ current_state' = new_state
           /\ state_objects' = ObjectsAfter(state_objects, new_state)
           /\ returned_states' = Returned(returned_states, calls + 1, state_objects', new_state)
           /\ market_state' = passed
           /\ last_sent_time' = filtered.sent
           /\ unique_events' = filtered.unique
           /\ notifications' = result
           /\ sent_notifications' = Logged(sent_notifications, result)
           /\ emitted' = emitted \o result
           /\ admitted' = admitted \cup
                  {[event |-> filtered.unique[i], time |-> now] :
                       i \in 1..Len(filtered.unique)}
    /\ prev_state' = current_state
    /\ presented' = presented \cup {events[i].subtype : i \in 1..Len(events)}
    /\ log_before' = sent_notifications
    /\ current_data' = ArgumentsAfter(data, history_window)[1]
    /\ passed_history' = history_window
    /\ history_window' = Append(ArgumentsAfter(data, history_window)[2],
                                ArgumentsAfter(data, history_window)[1])
    /\ op' = "process_step"
    /\ calls' = calls + 1
    /\ UNCHANGED <<now, ticks, rules, appVars>>

(* The snapshot that holds only the three fields SentimentTurningDownRule *)
(* reads, at index change -0.5, 4 limit-downs and a bomb rate of 35.      *)
TurningDownOnly ==
    [index_change_pct |-> -5, limit_down_count |-> 4, bomb_rate |-> 35]

(* d[key] = value of a Python dict: the key is set, or added *)
SetItem(d, key, value) ==
    [k \in DOMAIN d \cup {key} |-> IF k = key THEN value ELSE d[k]]

(* main.py line 66, after the first cycle: the flow of the last history   *)
(* entry becomes -200000.  That entry is the dict current_data is bound   *)
(* to (line 62 appended it), so current_data shows the new flow too.      *)
set_north_bound_flow ==
    /\ op = "process_step"
    /\ calls = 1
    /\ history_window' =
           [history_window EXCEPT ![Len(history_window)] =
                SetItem(@, "north_bound_flow", -200000)]
    /\ current_data' = SetItem(current_data, "north_bound_flow", -200000)
    /\ op' = "set_north_bound_flow"
    /\ UNCHANGED <<now, ticks, calls, events, smVars, nsVars, rules,
                   passed_history, appVars>>

(* Snapshots fed to the cycle at clock value t: none, the three-field     *)
(* snapshot and its neighbours with one field on its threshold, the       *)
(* snapshots of main.py lines 51-59, 69-77 and 85-94, and the last with a *)
(* capital withdrawal and with a falling leading sector as well.          *)
CycleSnapshots(t) ==
    {EmptyDict,
     TurningDownOnly,
     [TurningDownOnly EXCEPT !.index_change_pct = 0],
     [TurningDownOnly EXCEPT !.limit_down_count = 3],
     [TurningDownOnly EXCEPT !.bomb_rate = 30],
     SentimentTurningUp(t),
     FlowReversal(t),
     MultipleEvents(t),
     [MultipleEvents(t) EXCEPT !.north_bound_flow = -15000000,
                               !.top_sector = "Banking"],
     [MultipleEvents(t) EXCEPT !.north_bound_flow = -15000000,
                               !.top_sector = "Banking",
                               !.top_sector_change_pct = -3]}

(* The history process_step is first called with: the 30 baseline entries *)
(* of main.py lines 37-47, every volume at one of the draws tried; and,   *)
(* beyond main.py, 15 such entries or none.                               *)
CycleHistories(t) ==
    {<<>>} \cup
    {RuleHistory(n, vols, "flat", "same", t) :
        n \in {15, 30}, vols \in {"low", "base", "high"}}

InitCycle ==
    InitFull({5000}, {CanonicalRules}, {<<>>}, {EmptyDict}, CycleHistories(5000))

(* main.py lines 51-99: cycles, and the write of line 66 after the first *)
NextCycle ==
    \/ \E data \in CycleSnapshots(now) : process_step(data)
    \/ set_north_bound_flow

SpecCycle == InitCycle /\ [][NextCycle]_vars

(* The driving loop of main.py with the clock advancing between cycles:  *)
(* the empty snapshot, the snapshots of main.py lines 51-59, 69-77 and    *)
(* 85-94, and the last with a capital withdrawal.                         *)
LoopSnapshots(t) ==
    {EmptyDict,
     SentimentTurningUp(t),
     FlowReversal(t),
     MultipleEvents(t),
     [MultipleEvents(t) EXCEPT !.north_bound_flow = -15000000]}

(* The history of the first cycle: the 30 baseline entries of main.py     *)
(* lines 37-47 at draw 0, 15 entries at draw 0 or at the highest draw, or *)
(* none.                                                                  *)
InitLoop ==
    InitFull({5000}, {CanonicalRules}, {<<>>}, {EmptyDict},
             {<<>>, RuleHistory(30, "base", "flat", "same", 5000)}
             \cup {RuleHistory(15, vols, "flat", "same", 5000) :
                      vols \in {"base", "high"}})

NextLoop ==
    \/ \E d \in {1800, 1801} : Tick(d, MaxWaits)
    \/ \E data \in LoopSnapshots(now) : process_step(data)
    \/ set_north_bound_flow

SpecLoop == InitLoop /\ [][NextLoop]_vars

(* main.py lines 51, 69 and 84: the loop binds current_data to the next   *)
(* snapshot.                                                              *)
assign_current_data(data) ==
    /\ calls < MaxCycles
    /\ data # current_data
    /\ current_data' = data
    /\ op' = "assign_current_data"
    /\ UNCHANGED <<now, ticks, calls, events, smVars, nsVars, rules,
                   history_window, passed_history, appVars>>

(* main.py lines 51-99: a snapshot is bound, then process_step runs on it *)
(* and the snapshot joins the history; after the first cycle line 66 may  *)
(* rewrite the flow of the last entry.                                    *)
(* The snapshots tried: none; those of main.py lines 51-59, 69-77 and     *)
(* 85-94, and the last with a capital withdrawal and with a falling       *)
(* leading sector as well; one on which the three rules that raise the    *)
(* score can fire together: high volume, rising index, inflow and a new   *)
(* leading sector; and two on which every condition that reads no sign is *)
(* met, with a rising index and an inflow, and with a falling index and a *)
(* capital withdrawal.                                                    *)
DriverSnapshots(t) ==
    {EmptyDict,
     SentimentTurningUp(t),
     FlowReversal(t),
     MultipleEvents(t),
     [MultipleEvents(t) EXCEPT !.north_bound_flow = -15000000,
                               !.top_sector = "Banking"],
     [MultipleEvents(t) EXCEPT !.north_bound_flow = -15000000,
                               !.top_sector = "Banking",
                               !.top_sector_change_pct = -3]} \cup
    {[MultipleEvents(t) EXCEPT !.volume = 1400000, !.index_change_pct = 5,
                               !.north_bound_flow = 500000,
                               !.limit_down_count = 0, !.bomb_rate = 5],
     [MultipleEvents(t) EXCEPT !.volume = 1400000, !.index_change_pct = 5,
                               !.north_bound_flow = 500000,
                               !.top_sector_change_pct = -3],
     [MultipleEvents(t) EXCEPT !.volume = 1400000,
                               !.north_bound_flow = -15000000,
                               !.top_sector_change_pct = -3]}

(* The histories tried: none, 15 or 30 baseline entries of draw 0, and   *)
(* 30 of the lowest and of the highest draw.  An entry with an outflow    *)
(* comes into the history only by a cycle's append or by line 66.         *)
DriverHistories(t) ==
    {RuleHistory(n, "base", "flat", "same", t) : n \in {0, 15, 30}}
    \cup {RuleHistory(30, vols, "flat", "same", t) : vols \in {"low", "high"}}

InitDriver ==
    InitFull({5000}, {CanonicalRules}, {<<>>}, DriverSnapshots(5000),
             DriverHistories(5000))

NextDriver ==
    \/ \E data \in DriverSnapshots(now) : assign_current_data(data)
    \/ process_step(current_data)
    \/ set_north_bound_flow

SpecDriver == InitDriver /\ [][NextDriver]_vars

EvictNewest(window) ==
    IF Len(window) > HistoryCap THEN SubSeq(window, 1, Len(window) - 1) ELSE window

(* app.py lines 137-138: pop(0) once the window holds more than 100 *)
Evict(window) ==
    IF Len(window) > HistoryCap THEN Tail(window) ELSE window

(* app.py line 149: history_window[:-1] *)
AllButLast(window) == SubSeq(window, 1, Len(window) - 1)

(* app.py line 192: the seconds the auto-run loop sleeps with the mock   *)
(* source                                                                 *)
Interval == 2

(* app.py line 192: the seconds it sleeps with the real source *)
RealInterval == 60

(* data_provider.py line 43: MockDataProvider.base_volume *)
BaseVolume == 1000000

(* data_provider.py lines 45-51: the stocks of each sector of             *)
(* MockDataProvider.sectors                                               *)
SectorStocks(sector) ==
    CASE sector = "Semiconductor" -> <<"SMIC", "NAURA", "Cambricon">>
      [] sector = "Banking" -> <<"ICBC", "CCB", "CMB">>
      [] sector = "Liquor" -> <<"Kweichow Moutai", "Wuliangye", "Shanxi Fenjiu">>
      [] sector = "New Energy" -> <<"CATL", "BYD", "Sungrow">>
      [] sector = "Medicine" -> <<"Hengrui", "Mindray", "WuXi AppTec">>

(* data_provider.py lines 55-56: the trend, in tenths, after the draw u   *)
(* of random.uniform(-0.1, 0.1)                                           *)
NewTrend(tr, u) ==
    IF tr + u > 10 THEN 10 ELSE IF tr + u < -10 THEN -10 ELSE tr + u

(* data_provider.py line 69: constituents.sort(key=change_pct,            *)
(* reverse=True), a stable sort: equal entries keep their order.          *)
InsertByChange(sorted, x) ==
    LET k == Cardinality({i \in 1..Len(sorted) : sorted[i].change_pct >= x.change_pct})
    IN  SubSeq(sorted, 1, k) \o <<x>> \o SubSeq(sorted, k + 1, Len(sorted))

RECURSIVE SortedByChange(_)
SortedByChange(seq) ==
    IF seq = <<>> THEN <<>>
    ELSE InsertByChange(SortedByChange(SubSeq(seq, 1, Len(seq) - 1)), seq[Len(seq)])

(* data_provider.py lines 91-94: [f"<label> Stock {i}" for i in range(n)] *)
LadderNames(label, n) == [i \in 1..n |-> label \o " Stock " \o ToString(i - 1)]

(* data_provider.py lines 58-110: the snapshot MockDataProvider returns   *)
(* at clock value t with the trend tr that lines 55-56 left, for the       *)
(* draws d of its random calls: sector (line 58); sector_change,          *)
(* uniform(-0.5, 0.5) in tenths of a percent (line 59); symbols,          *)
(* randint(100, 999) for each stock (line 66); changes, uniform(0, 3) for *)
(* each stock in whole percent (line 67); dragon, random() > 0.7 (line    *)
(* 73); notice, random() > 0.8 (line 82); company, randint(1, 100) (line  *)
(* 84); ladder, the four randint of lines 91-94; volume, uniform(-0.2,    *)
(* 0.5) in tenths (line 99); index, uniform(-0.2, 0.2) in tenths of a     *)
(* percent (line 100); flow, uniform(-10000000, 10000000) (line 101);     *)
(* limit_down, randint(-1, 2) (line 102); bomb, uniform(-5, 5) (line      *)
(* 103).  top_sector_change_pct is held in whole percent: the draws tried *)
(* make trend * 2 + sector_change whole.  The keys of limit_up_ladder are *)
(* written "4+", "3", "2" and "1", without their Chinese character.       *)
MockSnapshot(t, tr, d) ==
    LET sector_change == (tr * 2 + d.sector_change) \div 10
        stocks == SectorStocks(d.sector)
        constituents ==
            [i \in 1..Len(stocks) |->
                [name |-> stocks[i],
                 symbol |-> "600" \o ToString(d.symbols[i]),
                 change_pct |-> sector_change + d.changes[i]]]
        twice_limit_down == 10 - tr + 2 * d.limit_down
        bomb == 20 - tr + d.bomb
    IN  [timestamp |-> t,
         volume |-> (BaseVolume * (10 + d.volume)) \div 10,
         index_change_pct |-> tr + d.index,
         north_bound_flow |-> d.flow + tr * 500000,
         limit_down_count |-> IF twice_limit_down <= 0 THEN 0
                              ELSE twice_limit_down \div 2,
         bomb_rate |-> IF bomb < 0 THEN 0 ELSE IF bomb > 100 THEN 100 ELSE bomb,
         top_sector |-> d.sector,
         top_sector_change_pct |-> sector_change,
         top_sector_constituents |-> SortedByChange(constituents),
         dragon_tiger_list |->
             IF d.dragon
             THEN <<[name |-> "Mock Stock A", reason |-> "Day Limit Up",
                     net_buy |-> 50000000]>>
             ELSE <<>>,
         latest_notices |->
             IF d.notice
             THEN <<[title |-> "Mock Company " \o ToString(d.company)
                                   \o " Annual Report Pre-increase",
                     time |-> "10:30", url |-> "#"]>>
             ELSE <<>>,
         limit_up_ladder |->
             [k \in {"4+", "3", "2", "1"} |->
                 CASE k = "4+" -> LadderNames("High", d.ladder[1])
                   [] k = "3" -> LadderNames("Mid", d.ladder[2])
                   [] k = "2" -> LadderNames("Low", d.ladder[3])
                   [] k = "1" -> LadderNames("First", d.ladder[4])]]

(* Draws of a quiet market: the trend stays, the volume is base_volume,   *)
(* index change and flow are the trend's, no list of the display grows    *)
(* beyond its least length.                                               *)
QuietDraws ==
    [trend |-> 0, sector |-> "Banking", sector_change |-> 0,
     symbols |-> <<100, 100, 100>>, changes |-> <<0, 0, 0>>,
     dragon |-> FALSE, notice |-> FALSE, company |-> 1,
     ladder |-> <<0, 0, 1, 5>>, volume |-> 0, index |-> 0, flow |-> 0,
     limit_down |-> -1, bomb |-> 0]

(* Draws at the upper end of each range, but for the changes of the       *)
(* stocks, where a later stock rises more than the first.                 *)
RisingDraws ==
    [trend |-> 1, sector |-> "Semiconductor", sector_change |-> 0,
     symbols |-> <<999, 999, 999>>, changes |-> <<0, 3, 3>>,
     dragon |-> TRUE, notice |-> TRUE, company |-> 100,
     ladder |-> <<2, 3, 5, 10>>, volume |-> 5, index |-> 2, flow |-> 10000000,
     limit_down |-> 2, bomb |-> 5]

(* Draws at the lower end of each range *)
FallingDraws ==
    [trend |-> -1, sector |-> "Medicine", sector_change |-> 0,
     symbols |-> <<100, 100, 100>>, changes |-> <<0, 0, 0>>,
     dragon |-> FALSE, notice |-> FALSE, company |-> 1,
     ladder |-> <<0, 0, 1, 5>>, volume |-> -2, index |-> -2, flow |-> -10000000,
     limit_down |-> -1, bomb |-> -5]

(* The draws tried by a provider of trend tr: the three above, with the   *)
(* draw of line 59 that makes the change of the leading sector whole.     *)
MockDraws(tr) ==
    {d \in {[b EXCEPT !.sector_change = u] :
                b \in {QuietDraws, RisingDraws, FallingDraws},
                u \in {-4, -2, 0, 2, 4}} :
        (NewTrend(tr, d.trend) * 2 + d.sector_change) % 10 = 0}

(* The draw of MockDraws(tr) that leaves the trend as it is *)
QuietDraw(tr) == CHOOSE d \in MockDraws(tr) : d.trend = 0

(* a[:n] and DataFrame.head(n) *)
FirstN(a, n) == SubSeq(a, 1, IF Len(a) < n THEN Len(a) ELSE n)

(* data_provider.py lines 130-134: the first row of the board table       *)
(* sorted by change, descending.  The tables tried have no two rows of    *)
(* one change.                                                            *)
TopSectorRow(sectors) ==
    CHOOSE i \in 1..Len(sectors) :
        \A j \in 1..Len(sectors) : sectors[j].change_pct <= sectors[i].change_pct

(* data_provider.py lines 158-171: of the first three rows of the table   *)
(* of institutional seats, those with a net buy above 10000000            *)
InstitutionalBuys(lhb) ==
    LET bought == SelectSeq(FirstN(lhb, 3), LAMBDA row : row.net_buy > 10000000)
    IN  [i \in 1..Len(bought) |->
            [name |-> bought[i].name, reason |-> "Institutional Net Buy",
             net_buy |-> bought[i].net_buy]]

(* data_provider.py lines 179-194: of the first five telegrams, those     *)
(* with a keyword in content or title (row.keyword); a telegram without   *)
(* title is named by the first 30 characters of its content               *)
(* (row.content_head).                                                    *)
KeywordNotices(news) ==
    LET chosen == SelectSeq(FirstN(news, 5), LAMBDA row : row.keyword)
    IN  [i \in 1..Len(chosen) |->
            [title |-> IF chosen[i].title # "" THEN chosen[i].title
                       ELSE chosen[i].content_head \o "...",
             time |-> chosen[i].publish_time, url |-> "#"]]

(* data_provider.py lines 198-220: the stocks of the limit-up pool by     *)
(* their number of boards in a row; at most five of one board are kept.   *)
RECURSIVE RealLadder(_)
RealLadder(zt) ==
    IF zt = <<>> THEN [k \in {"4+", "3", "2", "1"} |-> <<>>]
    ELSE LET before == RealLadder(SubSeq(zt, 1, Len(zt) - 1))
             row == zt[Len(zt)]
         IN  IF row.lb_count >= 4
             THEN [before EXCEPT !["4+"] =
                      Append(@, row.name \o "(" \o ToString(row.lb_count) \o ")")]
             ELSE IF row.lb_count = 3 THEN [before EXCEPT !["3"] = Append(@, row.name)]
             ELSE IF row.lb_count = 2 THEN [before EXCEPT !["2"] = Append(@, row.name)]
             ELSE IF Len(before["1"]) < 5 THEN [before EXCEPT !["1"] = Append(@, row.name)]
             ELSE before

(* data_provider.py lines 120-252: the snapshot AkShareDataProvider       *)
(* returns at clock value t for what akshare gave, f: failed, a call of   *)
(* lines 123-134 raised (lines 236-252); volume and index, the turnover   *)
(* and the change (in tenths of a percent) of the index row; sectors, the *)
(* board table; constituents, lhb, news and zt, the other tables, empty   *)
(* where the call raised (lines 147, 172, 193, 219).  Names are written   *)
(* without their Chinese characters.                                      *)
AkShareSnapshot(t, f) ==
    IF f.failed \/ f.sectors = <<>>
    THEN [timestamp |-> t, volume |-> 0, index_change_pct |-> 0,
          north_bound_flow |-> 0, limit_down_count |-> 0, bomb_rate |-> 0,
          top_sector |-> "Error", top_sector_change_pct |-> 0,
          top_sector_constituents |-> <<>>, dragon_tiger_list |-> <<>>,
          latest_notices |-> <<>>,
          limit_up_ladder |-> [k \in {"4+", "3", "2", "1"} |-> <<>>]]
    ELSE [timestamp |-> t,
          volume |-> f.volume,
          index_change_pct |-> f.index,
          north_bound_flow |-> 0,
          limit_down_count |-> 0,
          bomb_rate |-> 0,
          top_sector |-> f.sectors[TopSectorRow(f.sectors)].name,
          top_sector_change_pct |-> f.sectors[TopSectorRow(f.sectors)].change_pct,
          top_sector_constituents |-> FirstN(SortedByChange(f.constituents), 3),
          dragon_tiger_list |-> InstitutionalBuys(f.lhb),
          latest_notices |-> KeywordNotices(f.news),
          limit_up_ladder |-> RealLadder(f.zt)]

(* An answer of akshare in trading hours: four stocks of the leading      *)
(* board, two institutional seats of which one bought above the           *)
(* threshold, three telegrams of which two have a keyword and one of      *)
(* these no title, and a limit-up pool with six stocks of one board.      *)
FetchedMarket ==
    [failed |-> FALSE, volume |-> 1200000, index |-> 3,
     sectors |-> <<[name |-> "Liquor", change_pct |-> 1],
                   [name |-> "Semiconductor", change_pct |-> 2]>>,
     constituents |-> <<[name |-> "NAURA", symbol |-> "002371", change_pct |-> 1],
                        [name |-> "SMIC", symbol |-> "688981", change_pct |-> 4],
                        [name |-> "Cambricon", symbol |-> "688256", change_pct |-> 3],
                        [name |-> "GigaDevice", symbol |-> "603986", change_pct |-> 2]>>,
     lhb |-> <<[name |-> "SMIC", net_buy |-> 25000000],
               [name |-> "NAURA", net_buy |-> 10000000]>>,
     news |-> <<[title |-> "Buyback announced", content_head |-> "A buyback of shares",
                 publish_time |-> "10:30", keyword |-> TRUE],
                [title |-> "", content_head |-> "Contract won by a chip maker",
                 publish_time |-> "10:31", keyword |-> TRUE],
                [title |-> "Weather", content_head |-> "Rain in the south",
                 publish_time |-> "10:32", keyword |-> FALSE]>>,
     zt |-> <<[name |-> "High A", lb_count |-> 5], [name |-> "Mid A", lb_count |-> 3],
              [name |-> "Low A", lb_count |-> 2], [name |-> "First A", lb_count |-> 1],
              [name |-> "First B", lb_count |-> 1], [name |-> "First C", lb_count |-> 1],
              [name |-> "First D", lb_count |-> 1], [name |-> "First E", lb_count |-> 1],
              [name |-> "First F", lb_count |-> 1]>>]

(* No answer: the call of line 123 raised. *)
FetchFailed ==
    [failed |-> TRUE, volume |-> 0, index |-> 0, sectors |-> <<>>,
     constituents |-> <<>>, lhb |-> <<>>, news |-> <<>>, zt |-> <<>>]

(* What a call of the provider p may draw or be given, and what it draws  *)
(* or is given in the quiet run: the draws that leave the trend, or the   *)
(* answer FetchedMarket.                                                  *)
ProviderDraws(p) ==
    IF p.class = "MockDataProvider" THEN MockDraws(p.trend)
    ELSE {FetchedMarket, FetchFailed}

UsualDraw(p) ==
    IF p.class = "MockDataProvider" THEN QuietDraw(p.trend) ELSE FetchedMarket

(* p.get_latest_market_snapshot() at clock value t for d: the provider    *)
(* after the call (data_provider.py lines 55-56) and the snapshot.        *)
ProviderAfter(p, d) ==
    IF p.class = "MockDataProvider"
    THEN [p EXCEPT !.trend = NewTrend(p.trend, d.trend)]
    ELSE p

ProviderSnapshot(p, t, d) ==
    IF p.class = "MockDataProvider"
    THEN MockSnapshot(t, NewTrend(p.trend, d.trend), d)
    ELSE AkShareSnapshot(t, d)

(* Cycles that fill the window of app.py: a behaviour makes MaxCycles     *)
(* more.                                                                  *)
FillCycles == 99

(* Most steps of one behaviour of more than MaxCycles cycles of app.py    *)
(* that are not the auto-run loop's with the usual draw: a press of the   *)
(* button, a change of the data source, another draw or answer.          *)
MaxDepartures == 1

(* Most such steps of a behaviour up to its MaxCycles-th cycle, in any    *)
(* order and any number in succession.                                    *)
MaxEarlyDepartures == 6

Departs(b) == IF b THEN 1 ELSE 0

Within(cost) ==
    departures + cost
        <= (IF calls < MaxCycles THEN MaxEarlyDepartures ELSE MaxDepartures)

(* app.py lines 195-196: the auto-run loop sleeps interval seconds, 2     *)
(* with the mock source and 60 with the real one (line 192), before it    *)
(* calls update_system.                                                   *)
sleep ==
    /\ op # "sleep"
    /\ calls < FillCycles + MaxCycles
    /\ now' = now + (IF data_provider.class = "MockDataProvider" THEN Interval
                     ELSE RealInterval)
    /\ ticks' = ticks + 1
    /\ op' = "sleep"
    /\ UNCHANGED <<calls, events, smVars, nsVars, reVars, appVars>>

(* app.py lines 171-182, in any run of the script: the radio names the   *)
(* other source than the provider's, and the provider is replaced by a    *)
(* new one of that source.  A run that has slept goes on to its cycle     *)
(* (lines 196-197) before the next run reads the radio.                   *)
(* Where akshare is not installed line 179 raises (data_provider.py line  *)
(* 118) and the provider stays: no step.                                  *)
select_data_source(source) ==
    /\ Within(1)
    /\ op # "sleep"
    /\ calls < FillCycles + MaxCycles
    /\ source # data_provider.class
    /\ data_provider' = (IF source = "AkShareDataProvider" THEN AkShareDataProvider
                         ELSE MockDataProvider)
    /\ departures' = departures + 1
    /\ op' = "select_data_source"
    /\ UNCHANGED <<now, ticks, calls, events, smVars, nsVars, reVars>>

(* app.py update_system, lines 130-160, called by the button (line 189)   *)
(* or, after sleep, by the auto-run loop (line 197): data_provider        *)
(* returns its snapshot for d, the snapshot joins the window, the oldest  *)
(* entry leaves a window of more than 100, and the three stages run on    *)
(* the window without its last entry.  market_data_log (lines 141-145,    *)
(* which read the keys timestamp, index_change_pct and volume that every  *)
(* snapshot of both providers has) and notifications_log (lines 159-160)  *)
(* are read by the display alone and are left out.                        *)
update_system(d) ==
    /\ calls < FillCycles + MaxCycles
    /\ Within(Departs(op # "sleep") + Departs(d # UsualDraw(data_provider)))
    /\ LET data == ProviderSnapshot(data_provider, now, d)
           window == Evict(Append(history_window, data))
           evs == EvaluateAll(rules, data, AllButLast(window), calls + 1, now)
           buffered == PruneRecent(recent_events, now) \o evs
           new_state == UpdatedState(current_state, evs, buffered, now)
           filtered == ThrottleFilter(evs, last_sent_time, now)
           passed == PassedState(current_state, new_state)
           result == Format(NotifiedEvents(evs, filtered.unique), passed,
                            <<"notif", calls + 1>>, now)
       IN  /\ history_window' = window
           /\ passed_history' = AllButLast(window)
           /\ current_data' = data
           /\ events' = evs
           /\ recent_events' = buffered
           /\ current_state' = new_state
           /\ state_objects' = ObjectsAfter(state_objects, new_state)
           /\ returned_states' = Returned(returned_states, calls + 1, state_objects', new_state)
           /\ market_state' = passed
           /\ last_sent_time' = filtered.sent
           /\ unique_events' = filtered.unique
           /\ notifications' = result
           /\ sent_notifications' = Logged(sent_notifications, result)
           /\ emitted' = emitted \o result
           /\ admitted' = admitted \cup
                  {[event |-> filtered.unique[i], time |-> now] :
                       i \in 1..Len(filtered.unique)}
    /\ data_provider' = ProviderAfter(data_provider, d)
    /\ departures' = departures + Departs(op # "sleep")
                         + Departs(d # UsualDraw(data_provider))
    /\ prev_state' = current_state
    /\ presented' = presented \cup {events[i].subtype : i \in 1..Len(events)}
    /\ log_before' = sent_notifications
    /\ op' = "update_system"
    /\ calls' = calls + 1
    /\ UNCHANGED <<now, ticks, rules>>

(* app.py lines 104-112: the snapshot of a real provider, where one can   *)
(* be built, is taken unless it is the empty placeholder.                 *)
ValidInitData(data) ==
    ~(data.volume = 0 /\ data.top_sector_constituents = <<>>)

(* app.py lines 87-121: the window holds the snapshot of the real         *)
(* provider (lines 104-109) or, where there is none, the first snapshot   *)
(* of a new MockDataProvider (lines 115-119); data_provider is another    *)
(* MockDataProvider, of trend 0 (line 97).                                *)
InitSnapshots(t) ==
    {AkShareSnapshot(t, f) :
        f \in {g \in ProviderDraws(AkShareDataProvider) :
                  ValidInitData(AkShareSnapshot(t, g))}}
    \cup {ProviderSnapshot(MockDataProvider, t, d) : d \in ProviderDraws(MockDataProvider)}

InitApp ==
    /\ InitObjects({5000}, {CanonicalRules}, {<<>>}, {EmptyDict},
                   {<<data>> : data \in InitSnapshots(5000)})
    /\ departures = Departs(history_window[1] #
                                ProviderSnapshot(MockDataProvider, now,
                                                 UsualDraw(MockDataProvider)))

(* app.py lines 171-198, one run of the script after another: the source  *)
(* is changed, the button calls update_system, or the auto-run loop       *)
(* sleeps and calls it.                                                   *)
NextApp ==
    \/ sleep
    \/ \E source \in {"MockDataProvider", "AkShareDataProvider"} :
           select_data_source(source)
    \/ \E d \in ProviderDraws(data_provider) : update_system(d)

SpecApp == InitApp /\ [][NextApp]_vars

(* The records of models.py as Python holds them: type, subtype, level,   *)
(* status and format are Enum members (a class and a value), where the    *)
(* rest of the model writes the member's value alone, and an Event has    *)
(* its data dict.                                                          *)
EnumMember(class, value) == [class |-> class, value |-> value]

(* rule_engine.py lines 53-58, 78-82, 105-109, 128-131, 155-159, 177-180: *)
(* the data dict of the event a rule builds.  The mean avg_vol is written *)
(* as the pair <<sum, len>> and the ratio change_pct as the pair          *)
(* <<curr_vol * len - sum, sum>>.                                          *)
EventData(subtype, cur, hist) ==
    CASE subtype = "sentiment_turning_up" ->
             LET window == LastN(hist, 30)
                 total == SumSeq([i \in 1..Len(window) |-> Get(window[i], "volume", 0)])
                 curr_vol == Get(cur, "volume", 0)
             IN  [metric |-> "volume_spike", value |-> curr_vol,
                  baseline |-> <<total, Len(window)>>,
                  change_pct |-> <<curr_vol * Len(window) - total, total>>]
      [] subtype = "sentiment_turning_down" ->
             [metric |-> "sentiment_drop",
              limit_down |-> Get(cur, "limit_down_count", 0),
              bomb_rate |-> Get(cur, "bomb_rate", 0)]
      [] subtype = "flow_reversal" ->
             [metric |-> "flow_reversal",
              current |-> Get(cur, "north_bound_flow", 0),
              previous |-> Get(hist[Len(hist)], "north_bound_flow", 0)]
      [] subtype = "flow_withdrawal" ->
             [metric |-> "rapid_outflow", value |-> Get(cur, "north_bound_flow", 0)]
      [] subtype = "theme_emergence" ->
             [metric |-> "new_leader", sector |-> Get(cur, "top_sector", ""),
              old_leader |-> Get(hist[Len(hist) - 14], "top_sector", "")]
      [] subtype = "theme_exhaustion" ->
             [metric |-> "sector_drop",
              value |-> Get(cur, "top_sector_change_pct", 0)]

(* models.py lines 23-31 *)
EventRecord(e, cur, hist) ==
    [event_id |-> e.event_id, timestamp |-> e.timestamp,
     type |-> EnumMember("EventType", e.type),
     subtype |-> EnumMember("EventSubtype", e.subtype),
     level |-> EnumMember("EventLevel", e.level),
     data |-> EventData(e.subtype, cur, hist),
     description |-> e.description]

(* models.py lines 49-55 *)
MarketStateRecord(s) ==
    [timestamp |-> s.timestamp, status |-> EnumMember("MarketStatus", s.status),
     sentiment_score |-> s.sentiment_score, main_driver |-> s.main_driver,
     summary |-> s.summary]

(* models.py lines 71-78 *)
NotificationRecord(n) ==
    [notification_id |-> n.notification_id, timestamp |-> n.timestamp,
     format |-> EnumMember("NotificationFormat", n.format), title |-> n.title,
     lines |-> n.lines, related_events |-> n.related_events]

EventToDictWithoutData(r) ==
    [event_id |-> r.event_id, timestamp |-> r.timestamp, type |-> r.type.value,
     subtype |-> r.subtype.value, level |-> r.level.value,
     description |-> r.description]

(* Event.to_dict, models.py lines 33-42 *)
EventToDict(r) ==
    [event_id |-> r.event_id, timestamp |-> r.timestamp, type |-> r.type.value,
     subtype |-> r.subtype.value, level |-> r.level.value, data |-> r.data,
     description |-> r.description]

(* MarketState.to_dict, models.py lines 57-64 *)
MarketStateToDict(r) ==
    [timestamp |-> r.timestamp, status |-> r.status.value,
     sentiment_score |-> r.sentiment_score, main_driver |-> r.main_driver,
     summary |-> r.summary]

(* Notification.to_dict, models.py lines 80-88 *)
NotificationToDict(r) ==
    [notification_id |-> r.notification_id, timestamp |-> r.timestamp,
     format |-> r.format.value, title |-> r.title, lines |-> r.lines,
     related_events |-> r.related_events]

----------------------------------------------------------------------------
(* Properties of the six rules, checked under SpecRules *)

(* The events of the last cycle that carry the subtype and the level *)
Fired(subtype, level) ==
    {i \in 1..Len(events) : events[i].subtype = subtype /\ events[i].level = level}

Field(d, key, default) == IF key \in DOMAIN d THEN d[key] ELSE default

(* The number of history entries the mean is taken over, and the sum of   *)
(* their volumes                                                          *)
C15_WindowLen == IF Len(history_window) < 30 THEN Len(history_window) ELSE 30

RECURSIVE C15_VolumeSum(_)
C15_VolumeSum(k) ==
    IF k = 0 THEN 0
    ELSE Field(history_window[Len(history_window) + 1 - k], "volume", 0)
             + C15_VolumeSum(k - 1)

(* volume > 1.3 * mean and index change > 0, the mean being sum / len *)
C15_AboveMean ==
    /\ 10 * C15_WindowLen * Field(current_data, "volume", 0)
           > 13 * C15_VolumeSum(C15_WindowLen)
    /\ Field(current_data, "index_change_pct", 0) > 0

(* C15 as stated: with a non-empty history, a medium sentiment_turning_up *)
(* event is emitted exactly when the volume is above 1.3 times the mean   *)
(* of the last min(30, len) volumes and the index change is positive, a   *)
(* mean of 0 included.                                                    *)
C15_TurningUpIffAboveMean ==
    (op = "evaluate_all" /\ history_window # <<>>) =>
        (Fired("sentiment_turning_up", "medium") # {} <=> C15_AboveMean)

(* C15 amended: with a non-empty history, a medium sentiment_turning_up   *)
(* event is emitted exactly when the mean of the last min(30, len)        *)
(* volumes is positive, the volume is above 1.3 times that mean and the   *)
(* index change is positive; with a mean of 0 the rule never fires.       *)
C15_TurningUpIffAbovePositiveMean ==
    (op = "evaluate_all" /\ history_window # <<>>) =>
        /\ Fired("sentiment_turning_up", "medium") # {}
               <=> (C15_VolumeSum(C15_WindowLen) > 0 /\ C15_AboveMean)
        /\ Cardinality(Fired("sentiment_turning_up", "medium")) <= 1
        /\ Fired("sentiment_turning_up", "low") = {}
        /\ Fired("sentiment_turning_up", "high") = {}

(* The rule fires on a history of 31 entries whose first volume, outside  *)
(* the last 30, would lift the mean above the current volume.             *)
C15_Witness ==
    /\ op = "evaluate_all"
    /\ Len(history_window) = 31
    /\ Field(history_window[1], "volume", 0) = 40000000
    /\ current_data # EmptyDict
    /\ Fired("sentiment_turning_up", "medium") # {}

C16_Scenario ==
    /\ op = "evaluate_all"
    /\ Field(current_data, "volume", 0) = 1400000
    /\ Field(current_data, "index_change_pct", 0) = 5

(* C16 as stated: with an empty history and a snapshot of volume 1400000  *)
(* and index change 0.5, evaluate_all emits a sentiment_turning_up event. *)
C16_FiresOnEmptyHistory ==
    (C16_Scenario /\ history_window = <<>>) =>
        Fired("sentiment_turning_up", "medium") # {}

(* C16 amended: for a snapshot of volume 1400000 and index change 0.5,    *)
(* evaluate_all emits a sentiment_turning_up event when the history is    *)
(* not empty and its last min(30, len) volumes average 1000000, and emits *)
(* none when the history is empty.                                        *)
C16_FiresOnBaselineHistory ==
    C16_Scenario =>
        /\ history_window = <<>> => Fired("sentiment_turning_up", "medium") = {}
        /\ (/\ history_window # <<>>
            /\ C15_VolumeSum(C15_WindowLen) = 1000000 * C15_WindowLen)
               => Fired("sentiment_turning_up", "medium") # {}

(* The scenario of main.py with every draw of line 40 at 0: 30 baseline   *)
(* entries of volume 1000000, and the event is emitted                    *)
C16_Witness ==
    /\ C16_Scenario
    /\ Len(history_window) = 30
    /\ C15_VolumeSum(30) = 30000000
    /\ Fired("sentiment_turning_up", "medium") # {}

(* C18: a medium flow_reversal event is emitted exactly when the history  *)
(* is not empty, the current north_bound_flow is positive and the flow of *)
(* the last history entry is negative; no older entry is consulted.       *)
C18_ReversalIffLastNegative ==
    op = "evaluate_all" =>
        /\ Fired("flow_reversal", "medium") # {}
               <=> /\ history_window # <<>>
                   /\ Field(current_data, "north_bound_flow", 0) > 0
                   /\ Field(history_window[Len(history_window)],
                            "north_bound_flow", 0) < 0
        /\ Fired("flow_reversal", "low") = {}
        /\ Fired("flow_reversal", "high") = {}

(* Previous flow -200000 and current flow 300000: the event is emitted *)
C18_Witness ==
    /\ op = "evaluate_all"
    /\ Len(history_window) >= 2
    /\ Field(history_window[Len(history_window)], "north_bound_flow", 0) = -200000
    /\ Field(history_window[Len(history_window) - 1], "north_bound_flow", 0) = 0
    /\ Field(current_data, "north_bound_flow", 0) = 300000
    /\ Fired("flow_reversal", "medium") # {}

(* C19: no cycle of the six canonical rules returns both a flow_reversal  *)
(* and a flow_withdrawal event.                                           *)
C19_ReversalExcludesWithdrawal ==
    op = "evaluate_all" =>
        ~ /\ \E i \in 1..Len(events) : events[i].subtype = "flow_reversal"
          /\ \E i \in 1..Len(events) : events[i].subtype = "flow_withdrawal"

(* A withdrawal is emitted while the last history flow is not zero: the   *)
(* flow changes or keeps its sign, and no reversal accompanies it.        *)
C19_Witness ==
    /\ op = "evaluate_all"
    /\ history_window # <<>>
    /\ Field(history_window[Len(history_window)], "north_bound_flow", 0) > 0
    /\ \E i \in 1..Len(events) : events[i].subtype = "flow_withdrawal"

(* C20: a medium theme_emergence event is emitted exactly when the        *)
(* history has at least 15 entries, the current top_sector is not empty   *)
(* and it differs from the top_sector of the entry 15 places from the end *)
(* of the history; with fewer than 15 entries none is emitted.            *)
C20_EmergenceIffChangedFrom15Back ==
    op = "evaluate_all" =>
        /\ Fired("theme_emergence", "medium") # {}
               <=> /\ Len(history_window) >= 15
                   /\ Field(current_data, "top_sector", "") # ""
                   /\ Field(current_data, "top_sector", "")
                          # Field(history_window[Len(history_window) - 14],
                                  "top_sector", "")
        /\ Fired("theme_emergence", "low") = {}
        /\ Fired("theme_emergence", "high") = {}

(* The event is emitted on a history of exactly 15 entries whose last     *)
(* entry already names the current leading sector.                       *)
C20_Witness ==
    /\ op = "evaluate_all"
    /\ Len(history_window) = 15
    /\ Field(current_data, "top_sector", "") = "Semiconductor"
    /\ Field(history_window[15], "top_sector", "") = "Semiconductor"
    /\ Field(history_window[1], "top_sector", "") = "Banking"
    /\ Fired("theme_emergence", "medium") # {}

(* C21: a high flow_withdrawal event is emitted exactly when the current  *)
(* north_bound_flow is below -10000000, and a medium theme_exhaustion     *)
(* event exactly when top_sector_change_pct is below -2; the thresholds   *)
(* themselves fire nothing and the history plays no part.                 *)
C21_SnapshotOnlyRules ==
    op = "evaluate_all" =>
        /\ Fired("flow_withdrawal", "high") # {}
               <=> Field(current_data, "north_bound_flow", 0) < -10000000
        /\ Fired("flow_withdrawal", "medium") = {}
        /\ Fired("flow_withdrawal", "low") = {}
        /\ Fired("theme_exhaustion", "medium") # {}
               <=> Field(current_data, "top_sector_change_pct", 0) < -2
        /\ Fired("theme_exhaustion", "high") = {}
        /\ Fired("theme_exhaustion", "low") = {}

(* On an empty history, a flow one below the threshold fires the          *)
(* withdrawal while a sector change on its threshold fires no exhaustion. *)
C21_Witness ==
    /\ op = "evaluate_all"
    /\ history_window = <<>>
    /\ Field(current_data, "north_bound_flow", 0) = -10000001
    /\ Field(current_data, "top_sector_change_pct", 0) = -2
    /\ Fired("flow_withdrawal", "high") # {}
    /\ Fired("theme_exhaustion", "medium") = {}

C22_Metrics ==
    {"volume", "index_change_pct", "north_bound_flow", "limit_down_count",
     "bomb_rate", "top_sector", "top_sector_change_pct"}

(* The snapshot or history entry d with every absent metric written out   *)
(* as 0, or as the empty string for the sector name                       *)
C22_Completed(d) ==
    [k \in C22_Metrics |->
        IF k \in DOMAIN d THEN d[k] ELSE IF k = "top_sector" THEN "" ELSE 0]

(* C22: evaluate_all returns a list for every snapshot and history, with  *)
(* or without their fields: the events are those of the same snapshot and *)
(* history with every absent metric written as 0 (the empty string for    *)
(* the sector name), and a snapshot with no field yields no event.        *)
C22_AbsentMetricsAreNeutral ==
    op = "evaluate_all" =>
        /\ events \in Seq([event_id : {<<calls, i>> : i \in 1..6},
                           timestamp : {now}, type : {"anomaly_detection"},
                           subtype : Subtypes, level : EventLevel,
                           description : STRING])
        /\ events = EvaluateAll(rules, C22_Completed(current_data),
                                [i \in 1..Len(history_window) |->
                                    C22_Completed(history_window[i])],
                                calls, now)
        /\ current_data = EmptyDict => events = <<>>

(* A snapshot without volume, flow or sector is evaluated on a history of *)
(* 15 entries that hold no field, and the one rule whose fields are       *)
(* present fires.                                                         *)
C22_Witness ==
    /\ op = "evaluate_all"
    /\ DOMAIN current_data = {"index_change_pct", "limit_down_count", "bomb_rate"}
    /\ history_window = [i \in 1..15 |-> EmptyDict]
    /\ Len(events) = 1

----------------------------------------------------------------------------
(* Properties of one cycle of main.py, checked under SpecCycle *)

C17_Predicate ==
    /\ Field(current_data, "index_change_pct", 0) < 0
    /\ Field(current_data, "limit_down_count", 0) > 3
    /\ Field(current_data, "bomb_rate", 0) > 30

C17_Scenario ==
    /\ op = "process_step"
    /\ DOMAIN current_data = {"index_change_pct", "limit_down_count", "bomb_rate"}
    /\ current_data.index_change_pct = -5
    /\ current_data.limit_down_count = 4
    /\ current_data.bomb_rate = 35

(* C17: a high sentiment_turning_down event is emitted exactly when the   *)
(* index change is negative, the limit-down count is above 3 and the bomb *)
(* rate is above 30.  For the snapshot that holds only index change -0.5, *)
(* 4 limit-downs and bomb rate 35, whatever the history, the events of    *)
(* the cycle are exactly that one event, update_state lowers the score by *)
(* 10, stopping at 0, and a starting score of 40 or less gives red.       *)
C17_TurningDownCycle ==
    /\ op = "process_step" =>
           /\ Fired("sentiment_turning_down", "high") # {} <=> C17_Predicate
           /\ Fired("sentiment_turning_down", "medium") = {}
           /\ Fired("sentiment_turning_down", "low") = {}
    /\ C17_Scenario =>
           /\ Len(events) = 1
           /\ events[1].subtype = "sentiment_turning_down"
           /\ events[1].level = "high"
           /\ current_state.sentiment_score =
                  (IF prev_state.sentiment_score - 10 < 0 THEN 0
                   ELSE prev_state.sentiment_score - 10)
           /\ prev_state.sentiment_score <= 40 => current_state.status = "red"

(* The three-field snapshot arrives at a score of 5 with a history that   *)
(* is not empty: the score stops at 0 and the status is red.              *)
C17_Witness ==
    /\ C17_Scenario
    /\ history_window # <<>>
    /\ prev_state.sentiment_score = 5
    /\ current_state.sentiment_score = 0
    /\ current_state.status = "red"

C25_ScoreAfter ==
    LET sum == prev_state.sentiment_score + C7_Delta(events)
    IN  IF sum < 0 THEN 0 ELSE IF sum > 100 THEN 100 ELSE sum

(* C25: in every cycle the events evaluate_all returned are the events    *)
(* update_state scored and buffered and the events the throttle examined, *)
(* and the MarketState given to generate_notifications is the state       *)
(* update_state produced from them: the status line of an alert and the   *)
(* score line of a card show the state after the update.                  *)
C25_StagesShareEventsAndNewState ==
    op = "process_step" =>
        /\ current_state.sentiment_score = C25_ScoreAfter
        /\ Len(recent_events) >= Len(events)
        /\ SubSeq(recent_events, Len(recent_events) - Len(events) + 1,
                  Len(recent_events)) = events
        /\ IdsOf(unique_events) \subseteq IdsOf(events)
        /\ market_state = current_state
        /\ \A j \in 1..Len(notifications) :
               LET lines == notifications[j].lines
               IN  /\ notifications[j].format = "alert" =>
                          lines[Len(lines)] = C13_StatusLine(current_state.status)
                   /\ notifications[j].format = "card" =>
                          lines[Len(lines)] = "Sentiment Score: "
                              \o ToString(current_state.sentiment_score)
                              \o (IF current_state.score_type = "float"
                                  THEN ".0" ELSE "")

(* A cycle takes the state from yellow to red and its alert says red *)
C25_Witness ==
    /\ op = "process_step"
    /\ prev_state.status = "yellow"
    /\ current_state.status = "red"
    /\ Len(notifications) = 1
    /\ notifications[1].format = "alert"
    /\ notifications[1].lines[Len(notifications[1].lines)] = "Market Status: RED"

(* The member of an Enum class with the given value: EnumClass(value) *)
C27_Member(class, value) == [class |-> class, value |-> value]

C27_EventFromDict(d) ==
    [event_id |-> d.event_id, timestamp |-> d.timestamp,
     type |-> C27_Member("EventType", d.type),
     subtype |-> C27_Member("EventSubtype", d.subtype),
     level |-> C27_Member("EventLevel", d.level),
     data |-> d.data, description |-> d.description]

C27_MarketStateFromDict(d) ==
    [timestamp |-> d.timestamp, status |-> C27_Member("MarketStatus", d.status),
     sentiment_score |-> d.sentiment_score, main_driver |-> d.main_driver,
     summary |-> d.summary]

C27_NotificationFromDict(d) ==
    [notification_id |-> d.notification_id, timestamp |-> d.timestamp,
     format |-> C27_Member("NotificationFormat", d.format), title |-> d.title,
     lines |-> d.lines, related_events |-> d.related_events]

(* C27: to_dict of an Event, a MarketState and a Notification gives a     *)
(* dict with one key for every field of the record, the Enum fields as    *)
(* their values, and building the record again from the dict gives a      *)
(* record equal to the first in every field.                              *)
C27_ToDictRoundTrip ==
    op = "process_step" =>
        /\ \A i \in 1..Len(events) :
               LET r == EventRecord(events[i], current_data, passed_history)
               IN  /\ DOMAIN EventToDict(r) = DOMAIN r
                   /\ EventToDict(r).level \in EventLevel
                   /\ EventToDict(r).subtype \in Subtypes
                   /\ C27_EventFromDict(EventToDict(r)) = r
        /\ LET r == MarketStateRecord(current_state)
           IN  /\ DOMAIN MarketStateToDict(r) = DOMAIN r
               /\ MarketStateToDict(r).status \in MarketStatus
               /\ C27_MarketStateFromDict(MarketStateToDict(r)) = r
        /\ \A j \in 1..Len(notifications) :
               LET r == NotificationRecord(notifications[j])
               IN  /\ DOMAIN NotificationToDict(r) = DOMAIN r
                   /\ NotificationToDict(r).format \in NotificationFormat
                   /\ C27_NotificationFromDict(NotificationToDict(r)) = r

(* A cycle with a theme_emergence event, whose data name two sectors, and *)
(* an alert.                                                              *)
C27_Witness ==
    /\ op = "process_step"
    /\ \E i \in 1..Len(events) :
           /\ events[i].subtype = "theme_emergence"
           /\ EventToDict(EventRecord(events[i], current_data, passed_history)).data
                  = [metric |-> "new_leader", sector |-> "Semiconductor",
                     old_leader |-> "Banking"]
    /\ Len(notifications) = 1
    /\ NotificationToDict(NotificationRecord(notifications[1])).format = "alert"

----------------------------------------------------------------------------
(* Properties of the driving loop of app.py, checked under SpecApp *)

C32_Lookback == {"sentiment_turning_up", "flow_reversal", "theme_emergence"}

(* C32: with an empty history evaluate_all can always be carried out, on  *)
(* any snapshot, and the list it returns holds no sentiment_turning_up,   *)
(* flow_reversal or theme_emergence event.                                *)
C32_EmptyHistoryNoLookbackEvent ==
    /\ (history_window = <<>> /\ calls < MaxEvaluations) => ENABLED evaluate_all
    /\ (op = "evaluate_all" /\ passed_history = <<>>) =>
          \A i \in 1..Len(events) : events[i].subtype \notin C32_Lookback

(* evaluate_all has returned on an empty history for a snapshot of high   *)
(* volume, rising index, positive flow and a named leading sector, with   *)
(* the event of a rule that reads the snapshot alone.                     *)
C32_Witness ==
    /\ op = "evaluate_all"
    /\ passed_history = <<>>
    /\ Field(current_data, "volume", 0) = 1400000
    /\ Field(current_data, "index_change_pct", 0) = 5
    /\ Field(current_data, "north_bound_flow", 0) = 300000
    /\ Field(current_data, "top_sector", "") = "Banking"
    /\ events # <<>>
    /\ \A i \in 1..Len(events) : events[i].subtype \notin C32_Lookback

(* C36: the throttle map changes only on admission.  In every step each  *)
(* subtype keeps its entry and the entry never decreases; a               *)
(* generate_notifications call sets the entry of each subtype it admits   *)
(* to the clock value of the call and leaves every other subtype,         *)
(* throttled or absent, as it was: with its old timestamp, or without an  *)
(* entry.  (Checked under SpecNS.)                                        *)
C36_MapChangesOnlyOnAdmission ==
    [][/\ \A s \in DOMAIN last_sent_time :
             /\ s \in DOMAIN last_sent_time'
             /\ last_sent_time'[s] >= last_sent_time[s]
       /\ op' = "generate_notifications" =>
             \A s \in Subtypes :
                 IF \E i \in 1..Len(unique_events') : unique_events'[i].subtype = s
                 THEN s \in DOMAIN last_sent_time' /\ last_sent_time'[s] = now'
                 ELSE IF s \in DOMAIN last_sent_time
                      THEN s \in DOMAIN last_sent_time'
                           /\ last_sent_time'[s] = last_sent_time[s]
                      ELSE s \notin DOMAIN last_sent_time']_vars

(* An event presented exactly 1800 seconds after the admission of its     *)
(* subtype was throttled, next to an admitted event of another subtype,   *)
(* and its subtype still has the timestamp of that admission.             *)
C36_Witness ==
    /\ op = "generate_notifications"
    /\ unique_events # <<>>
    /\ \E i \in 1..Len(events) :
          /\ events[i].event_id \notin IdsOf(unique_events)
          /\ events[i].subtype \in DOMAIN last_sent_time
          /\ last_sent_time[events[i].subtype] = now - 1800
          /\ \E a \in admitted :
                a.event.subtype = events[i].subtype /\ a.time = now - 1800

----------------------------------------------------------------------------
(* Properties of the driving loop with an advancing clock, checked under  *)
(* SpecLoop                                                               *)

(* The throttle map after a call, from the map before it and the events   *)
(* presented at clock value t alone.                                      *)
C31_ThrottleMap(evs, sent, t) ==
    LET fresh == {evs[i].subtype : i \in {j \in 1..Len(evs) :
                     t - (IF evs[j].subtype \in DOMAIN sent
                          THEN sent[evs[j].subtype] ELSE 0) > 1800}}
    IN  [s \in (DOMAIN sent) \cup fresh |-> IF s \in fresh THEN t ELSE sent[s]]

(* The subtypes of the admitted events that notification n relates. *)
C31_SubtypesOf(n) ==
    {a.event.subtype : a \in {b \in admitted :
        \E k \in 1..Len(n.related_events) : n.related_events[k] = b.event.event_id}}

(* C31: scoring and throttling are independent.  In every cycle the score *)
(* moves by the sum of the weights of all the cycle's events, throttled   *)
(* or not (clamped to 0..100), and the state the Notification Service     *)
(* leaves behind is the one update_state returned; the throttle map after *)
(* the cycle follows from the map before it, the events and the clock     *)
(* alone; and two notifications that relate events of one subtype are     *)
(* more than 1800 seconds apart, so a subtype firing in consecutive       *)
(* cycles within 1800 seconds gets at most one notification.              *)
C31_ScoringIndependentOfThrottle ==
    /\ [](\A i \in 1..Len(emitted) : \A j \in 1..Len(emitted) :
            (i < j /\ C31_SubtypesOf(emitted[i]) \cap C31_SubtypesOf(emitted[j]) # {})
                => emitted[j].timestamp - emitted[i].timestamp > 1800)
    /\ [][op' = "process_step" =>
            LET target == current_state.sentiment_score + C7_Delta(events')
                score == IF target < 0 THEN 0 ELSE IF target > 100 THEN 100 ELSE target
            IN  /\ current_state'.sentiment_score = score
                /\ current_state'.status =
                       (IF score >= 70 THEN "green"
                        ELSE IF score <= 30 THEN "red" ELSE "yellow")
                /\ market_state' = current_state'
                /\ last_sent_time' = C31_ThrottleMap(events', last_sent_time, now')]_vars

(* A subtype fired in an earlier cycle less than 1800 seconds ago and was *)
(* notified; it fires again, is throttled and in no notification, and the *)
(* score moves all the same.                                              *)
C31_Witness ==
    /\ op = "process_step"
    /\ \E i \in 1..Len(events) : \E k \in 1..Len(recent_events) :
          /\ recent_events[k].subtype = events[i].subtype
          /\ recent_events[k].event_id # events[i].event_id
          /\ recent_events[k].event_id \in NotifiedIds
          /\ events[i].event_id \notin IdsOf(unique_events)
          /\ events[i].event_id \notin NotifiedIds
          /\ C7_Weight(events[i].subtype) # 0
    /\ current_state.sentiment_score = prev_state.sentiment_score + C7_Delta(events)
    /\ current_state.sentiment_score # prev_state.sentiment_score

----------------------------------------------------------------------------
(* Properties of the driving loop with the snapshot held by the loop,     *)
(* checked under SpecDriver                                               *)

(* C33: the stages leave their inputs as they were.  After a cycle the    *)
(* snapshot is the one the loop held before it; the history the loop      *)
(* holds is the history before the cycle, entry for entry and in order,   *)
(* followed by that snapshot (the append of the loop itself); and the     *)
(* events the State Manager buffered and the events the Notification      *)
(* Service admitted are, field for field, events of the list evaluate_all *)
(* returned.                                                              *)
C33_InputsUnchanged ==
    [][op' = "process_step" =>
          /\ current_data' = current_data
          /\ passed_history' = history_window
          /\ Len(history_window') = Len(history_window) + 1
          /\ \A i \in 1..Len(history_window) : history_window'[i] = history_window[i]
          /\ history_window'[Len(history_window')] = current_data
          /\ Len(recent_events') >= Len(events')
          /\ \A i \in 1..Len(events') :
                recent_events'[Len(recent_events') - Len(events') + i] = events'[i]
          /\ \A i \in 1..Len(unique_events') :
                \E j \in 1..Len(events') : unique_events'[i] = events'[j]]_vars

(* A cycle on a history of more than 30 entries has returned events, some *)
(* admitted, and the history still holds all its entries and the snapshot.*)
C33_Witness ==
    /\ op = "process_step"
    /\ Len(passed_history) > 30
    /\ Len(history_window) = Len(passed_history) + 1
    /\ history_window = Append(passed_history, current_data)
    /\ Len(events) >= 2
    /\ unique_events # <<>>
    /\ current_data # EmptyDict

(* The status a score has by the thresholds 70 and 30. *)
C34_Status(score) ==
    IF score >= 70 THEN "green" ELSE IF score <= 30 THEN "red" ELSE "yellow"

(* The sum of the weights of the buffered events of one cycle. *)
C34_DeltaOfCycle(c) ==
    C7_Delta(SelectSeq(recent_events, LAMBDA e : e.event_id[1] = c))

(* C34: with the six rules of main.py the sum of the weights of a cycle's *)
(* events, and with it the change of the score, lies in -25..20; the      *)
(* status before and after the cycle is the one the score has by the      *)
(* thresholds alone; and a green state is never followed directly by a    *)
(* red one, nor a red state by a green one.                               *)
C34_NoJumpBetweenGreenAndRed ==
    op = "process_step" =>
        /\ C7_Delta(events) \in -25..20
        /\ current_state.sentiment_score - prev_state.sentiment_score \in -25..20
        /\ current_state.status = C34_Status(current_state.sentiment_score)
        /\ prev_state.status = C34_Status(prev_state.sentiment_score)
        /\ ~(prev_state.status = "green" /\ current_state.status = "red")
        /\ ~(prev_state.status = "red" /\ current_state.status = "green")

(* Three cycles of deltas +15, +20 and -25 from the initial score 50: the *)
(* second, after the write of main.py line 66, took the state from yellow *)
(* (65) to green (85) by the largest rise, and the third took it from     *)
(* green by the largest fall, to yellow (60) and not to red.              *)
C34_Witness ==
    /\ op = "process_step"
    /\ calls = 3
    /\ C34_DeltaOfCycle(1) = 15
    /\ C34_Status(50 + C34_DeltaOfCycle(1)) = "yellow"
    /\ C34_DeltaOfCycle(2) = 20
    /\ prev_state.sentiment_score = 50 + C34_DeltaOfCycle(1) + C34_DeltaOfCycle(2)
    /\ prev_state.status = "green"
    /\ C34_DeltaOfCycle(3) = -25
    /\ current_state.sentiment_score = 60
    /\ current_state.status = "yellow"

(* Three cycles of deltas -25, +20 and -25: the first took the state from *)
(* yellow (50) to red (25) by the largest fall, the second took it from   *)
(* red by the largest rise, to yellow (45) and not to green, and the      *)
(* third from yellow to red (20) again.                                   *)
C34_WitnessRed ==
    /\ op = "process_step"
    /\ calls = 3
    /\ C34_DeltaOfCycle(1) = -25
    /\ C34_Status(50 + C34_DeltaOfCycle(1)) = "red"
    /\ C34_DeltaOfCycle(2) = 20
    /\ prev_state.sentiment_score = 50 + C34_DeltaOfCycle(1) + C34_DeltaOfCycle(2)
    /\ prev_state.status = "yellow"
    /\ C34_DeltaOfCycle(3) = -25
    /\ current_state.sentiment_score = 20
    /\ current_state.status = "red"

(* The subtypes of the events of the last cycle. *)
C35_Subtypes == {events[i].subtype : i \in 1..Len(events)}

(* C35: the event list of a cycle never holds both sentiment_turning_up   *)
(* and sentiment_turning_down, nor both flow_reversal and                 *)
(* flow_withdrawal, so it holds at most 4 events; and an alert has at     *)
(* most 2 event lines, followed by the status line.                       *)
C35_ExclusiveRulesBoundEvents ==
    op = "process_step" =>
        /\ ~({"sentiment_turning_up", "sentiment_turning_down"} \subseteq C35_Subtypes)
        /\ ~({"flow_reversal", "flow_withdrawal"} \subseteq C35_Subtypes)
        /\ Len(events) <= 4
        /\ \A n \in 1..Len(notifications) :
              notifications[n].format = "alert" =>
                  /\ Len(notifications[n].lines) \in 2..3
                  /\ notifications[n].lines[Len(notifications[n].lines)]
                         = C13_StatusLine(market_state.status)
                  /\ \A k \in 1..(Len(notifications[n].lines) - 1) :
                        \E i \in 1..Len(events) :
                            /\ events[i].level = "high"
                            /\ events[i].description = notifications[n].lines[k]

(* A cycle of four events, sentiment_turning_down and flow_withdrawal     *)
(* among them, whose alert has two event lines and the status line.       *)
C35_Witness ==
    /\ op = "process_step"
    /\ Len(events) = 4
    /\ {"sentiment_turning_down", "flow_withdrawal"} \subseteq C35_Subtypes
    /\ Len(notifications) = 1
    /\ notifications[1].format = "alert"
    /\ Len(notifications[1].lines) = 3

====
